---- MODULE Spec2Model ----
(***************************************************************************)
(* Cache & aggregation engine of the context-engine service.               *)
(*   src/src/core/cache_manager.py   : CacheEntry, LRUCache, CacheManager  *)
(*   src/src/core/context_builder.py : ContextBuilder                      *)
(*                                                                         *)
(* Specifications in this module:                                          *)
(*   Spec           the LRUCache object alone (get/set/delete/clear)       *)
(*   SpecKey        CacheManager._generate_cache_key on its own            *)
(*   SpecManager    the CacheManager over its tiers, two scopes            *)
(*   SpecInvalidate the CacheManager over its tiers, three scopes         *)
(*   SpecBuild      ContextBuilder.build_context, request after request    *)
(*   SpecScore      the scoring of every combination of analyzer results   *)
(***************************************************************************)
EXTENDS Integers, Sequences, FiniteSets, TLC

----------------------------------------------------------------------------
(* Bounds of the model *)

\* largest max_size an LRUCache is constructed with (0..MaxSize are explored)
MaxSize == 2
\* the clock runs from 0 to MaxTime
MaxTime == 1
\* LRUCache.get is explored while the entry's hit_count is below MaxHits
MaxHits == 1
\* default_ttl the LRUCache under test is constructed with
DefaultTtl == 2

\* Python's None
None == "None"

\* keys, values and ttl arguments handed to the LRUCache operations
LRUKeys == {"A", "B", "C"}
Values == {"v1", "v2"}
\* Optional[int] arguments: <<>> is None, <<n>> is the integer n
NoInt == <<>>
TtlArgs == {NoInt, <<0>>, <<1>>}

----------------------------------------------------------------------------
VARIABLES
    cache,        \* LRUCache.cache: the OrderedDict, as the sequence of its
                  \* CacheEntry records, oldest position first
    max_size,     \* LRUCache.max_size
    default_ttl,  \* LRUCache.default_ttl
    now,          \* datetime.now(), in seconds
    last,         \* the operation that completed last and what it returned
    touched,      \* history: the stored keys, least recently touched first,
                  \* a touch being a set of the key or a get that returned
                  \* its value
    gen,          \* the last two calls of CacheManager._generate_cache_key:
                  \* their arguments and the keys they returned
    enable_memory_cache,  \* CacheManager.enable_memory_cache
    enable_redis_cache,   \* CacheManager.enable_redis_cache
    enable_db_cache,      \* CacheManager.enable_db_cache
    stats,                \* CacheManager.stats: the eight counters
    tier_backend, \* what stands behind the optional tiers' I/O methods:
                  \* "placeholder", the methods as the source has them, or
                  \* "store", a key-value store honouring get/set/delete
    redis,        \* contents of the distributed tier
    db,           \* contents of the persistent tier
    pc,           \* where the build_context call in progress stands
    req,          \* its arguments: scope, include_dimensions, use_cache
    dims,         \* dimensions_to_build
    task,         \* per dimension, the analyzer coroutine handed to gather:
                  \* its state and its outcome
    results,      \* dimension_results
    finish_order, \* history: the dimensions whose analyzers have finished,
                  \* in the order they finished (followed in SpecGather)
    completed_tasks,  \* what asyncio.gather returned (followed in SpecGather)
    coros,        \* the calls in progress on the event loop, one per
                  \* coroutine: where each is suspended and its locals
                  \* (CacheManager calls in SpecCoop, a graph-client request
                  \* in SpecRetry)
    response,     \* the ContextResponse returned: <<>> or <<response>>
    raised,       \* the exception build_context raised, or None
    nreq          \* number of build_context calls so far

lruVars == <<cache, max_size, default_ttl, now, last, touched>>
keyVars == <<gen>>
mgrVars == <<enable_memory_cache, enable_redis_cache, enable_db_cache,
             tier_backend, redis, db, stats>>
buildVars == <<pc, req, dims, task, results, response, raised, nreq,
               finish_order, completed_tasks, coros>>
vars == <<cache, max_size, default_ttl, now, last, touched, gen,
          enable_memory_cache, enable_redis_cache, enable_db_cache,
          tier_backend, redis, db, stats,
          pc, req, dims, task, results, response, raised, nreq,
          finish_order, completed_tasks, coros>>

----------------------------------------------------------------------------
(* CacheEntry *)

CacheEntry(key, value, created, ttl, case_status) ==
    [key |-> key, value |-> value, expires_at |-> created + ttl,
     hit_count |-> 0, case_status |-> case_status]

is_expired(entry, t) == t >= entry.expires_at

\* mutation of increment_hits: the counter is left as it is
increment_hits_not(entry) == entry

\* CacheEntry.increment_hits: self.hit_count += 1
increment_hits(entry) == [entry EXCEPT !.hit_count = @ + 1]

----------------------------------------------------------------------------
(* OrderedDict primitives used by LRUCache *)

KeysOf(c) == {c[i].key : i \in 1..Len(c)}

Contains(c, k) == k \in KeysOf(c)

EntryOf(c, k) == c[CHOOSE i \in 1..Len(c) : c[i].key = k]

\* del self.cache[key]
DelKey(c, k) == SelectSeq(c, LAMBDA e : e.key # k)

\* mutation of SetItem: an overwritten entry keeps its hit counter
SetItem_keep_hits(c, k, entry) ==
    IF Contains(c, k)
    THEN [i \in 1..Len(c) |->
            IF c[i].key = k THEN [entry EXCEPT !.hit_count = c[i].hit_count]
            ELSE c[i]]
    ELSE Append(c, entry)

\* self.cache[key] = entry : an existing key keeps its position, a new key is
\* placed last
SetItem(c, k, entry) ==
    IF Contains(c, k)
    THEN [i \in 1..Len(c) |-> IF c[i].key = k THEN entry ELSE c[i]]
    ELSE Append(c, entry)

\* mutation of move_to_end: the position is left as it is
move_to_end_noop(c, k) == c

\* self.cache.move_to_end(key)
move_to_end(c, k) == Append(DelKey(c, k), EntryOf(c, k))

\* mutation of EvictOldest: nothing is evicted
EvictOldest_never(c, max) == c

\* if len(self.cache) > self.max_size: del self.cache[next(iter(self.cache))]
EvictOldest(c, max) == IF Len(c) > max THEN Tail(c) ELSE c

----------------------------------------------------------------------------
(* LRUCache operations as functions of the dictionary and the clock *)

\* mutation of LRUGetExpired: an entry is still served at its expiry instant
LRUGetExpired_late(c, k, t) == Contains(c, k) /\ t > EntryOf(c, k).expires_at

\* LRUCache.get: the entry is present and entry.is_expired()
LRUGetExpired(c, k, t) == Contains(c, k) /\ is_expired(EntryOf(c, k), t)

\* LRUCache.get: the entry is present and valid
LRUGetHit(c, k, t) == Contains(c, k) /\ ~LRUGetExpired(c, k, t)

\* LRUCache.get: the returned value
LRUGetResult(c, k, t) == IF LRUGetHit(c, k, t) THEN EntryOf(c, k).value ELSE None

\* LRUCache.get: the dictionary afterwards
LRUGetCache(c, k, t) ==
    IF ~Contains(c, k) THEN c
    ELSE IF LRUGetExpired(c, k, t) THEN DelKey(c, k)
    ELSE LET moved == move_to_end(c, k)
         IN  [moved EXCEPT ![Len(moved)] = increment_hits(@)]

\* ttl = ttl or self.default_ttl  (None and 0 are falsy)
EffectiveTtl(ttl, dflt) ==
    IF ttl = NoInt THEN dflt ELSE IF ttl[1] = 0 THEN dflt ELSE ttl[1]

\* mutation of LRUSetCache: expired entries are purged before the size is
\* compared with max_size
LRUSetCache_purge(c, k, v, ttl, case_status, t, max, dflt) ==
    LET entry == CacheEntry(k, v, t, EffectiveTtl(ttl, dflt), case_status)
        live == SelectSeq(c, LAMBDA e : e.key = k \/ ~is_expired(e, t))
    IN  EvictOldest(move_to_end(SetItem(live, k, entry), k), max)

\* LRUCache.set: the dictionary afterwards
LRUSetCache(c, k, v, ttl, case_status, t, max, dflt) ==
    LET entry == CacheEntry(k, v, t, EffectiveTtl(ttl, dflt), case_status)
    IN  EvictOldest(move_to_end(SetItem(c, k, entry), k), max)

\* LRUCache.set: the key logged as "Evicting oldest entry", None when the
\* size stays within max_size
LRUSetEvicted(c, k, max) ==
    LET filled == move_to_end(SetItem(c, k, CacheEntry(k, None, 0, 0, None)), k)
    IN  IF EvictOldest(filled, max) # filled THEN Head(filled).key ELSE None

\* LRUCache.delete
LRUDeleteResult(c, k) == Contains(c, k)

LRUDeleteCache(c, k) == IF Contains(c, k) THEN DelKey(c, k) ELSE c

\* LRUCache.clear
LRUClearResult(c) == Len(c)

----------------------------------------------------------------------------
(* History of touches, kept beside the cache and never read by it *)

SeqWithout(s, k) == SelectSeq(s, LAMBDA x : x # k)

Restrict(s, keep) == SelectSeq(s, LAMBDA x : x \in keep)

\* key k was touched; afterwards exactly the keys in `keep` are stored
Touch(s, k, keep) == Restrict(Append(SeqWithout(s, k), k), keep)

----------------------------------------------------------------------------
(* The LRUCache object: one action per method *)

\* op: the method; key: its key argument; value: what get returned;
\* ok: get found a valid entry / set stored a key that was not stored /
\* delete returned True; n: the number of entries the call removed;
\* evicted: the key LRUCache.set evicted ("Evicting oldest entry"), or None
\* no build_context call has been made
NoBuild ==
    /\ pc = "IDLE"
    /\ req = <<>>
    /\ dims = <<>>
    /\ task = <<>>
    /\ results = <<>>
    /\ response = <<>>
    /\ raised = None
    /\ nreq = 0
    /\ finish_order = <<>>
    /\ completed_tasks = <<>>
    /\ coros = <<>>

\* no CacheManager has been constructed
\* CacheManager.__init__ / reset_stats: self.stats with every counter at 0
ZeroStats ==
    [memory_hits |-> 0, memory_misses |-> 0, redis_hits |-> 0,
     redis_misses |-> 0, db_hits |-> 0, db_misses |-> 0,
     total_sets |-> 0, total_deletes |-> 0]

NoManager ==
    /\ enable_memory_cache = FALSE
    /\ enable_redis_cache = FALSE
    /\ enable_db_cache = FALSE
    /\ tier_backend = "placeholder"
    /\ redis = {}
    /\ db = {}
    /\ stats = ZeroStats

NoOp == [op |-> "init", key |-> None, value |-> None, ok |-> FALSE, n |-> 0,
         evicted |-> None]

Init ==
    /\ cache = <<>>
    /\ max_size \in 0..MaxSize
    /\ default_ttl = DefaultTtl
    /\ now = 0
    /\ last = NoOp
    /\ touched = <<>>
    /\ gen = <<>>
    /\ NoManager
    /\ NoBuild

Get(k) ==
    /\ Contains(cache, k) => EntryOf(cache, k).hit_count < MaxHits
    /\ cache' = LRUGetCache(cache, k, now)
    /\ last' = [NoOp EXCEPT !.op = "get", !.key = k,
                            !.value = LRUGetResult(cache, k, now),
                            !.ok = LRUGetHit(cache, k, now),
                            !.n = Len(cache) - Len(cache')]
    /\ touched' = IF LRUGetHit(cache, k, now)
                  THEN Touch(touched, k, KeysOf(cache'))
                  ELSE Restrict(touched, KeysOf(cache'))
    /\ UNCHANGED <<max_size, default_ttl, now, keyVars, mgrVars, buildVars>>

Set(k, v, ttl) ==
    /\ cache' = LRUSetCache(cache, k, v, ttl, "active", now, max_size, default_ttl)
    /\ last' = [NoOp EXCEPT !.op = "set", !.key = k,
                            !.ok = ~Contains(cache, k),
                            !.n = Cardinality(KeysOf(cache) \cup {k}) - Len(cache'),
                            !.evicted = LRUSetEvicted(cache, k, max_size)]
    /\ touched' = Touch(touched, k, KeysOf(cache'))
    /\ UNCHANGED <<max_size, default_ttl, now, keyVars, mgrVars, buildVars>>

Delete(k) ==
    /\ cache' = LRUDeleteCache(cache, k)
    /\ last' = [NoOp EXCEPT !.op = "delete", !.key = k,
                            !.ok = LRUDeleteResult(cache, k),
                            !.n = Len(cache) - Len(cache')]
    /\ touched' = Restrict(touched, KeysOf(cache'))
    /\ UNCHANGED <<max_size, default_ttl, now, keyVars, mgrVars, buildVars>>

Clear ==
    /\ cache' = <<>>
    /\ last' = [NoOp EXCEPT !.op = "clear", !.n = LRUClearResult(cache)]
    /\ touched' = <<>>
    /\ UNCHANGED <<max_size, default_ttl, now, keyVars, mgrVars, buildVars>>

Tick ==
    /\ now < MaxTime
    /\ now' = now + 1
    /\ last' = [NoOp EXCEPT !.op = "tick"]
    /\ UNCHANGED <<cache, max_size, default_ttl, touched, keyVars, mgrVars, buildVars>>

Next ==
    \/ \E k \in LRUKeys : Get(k)
    \/ \E k \in LRUKeys, v \in Values, ttl \in TtlArgs : Set(k, v, ttl)
    \/ \E k \in LRUKeys : Delete(k)
    \/ Clear
    \/ Tick

Spec == Init /\ [][Next]_vars

----------------------------------------------------------------------------
(* Claims about LRUCache, checked under Spec *)

\* the key that was touched least recently among the stored keys once key k
\* has been touched
LeastRecentlyTouched(k) == Head(Append(SeqWithout(touched, k), k))

\* C1: whenever a set of a key that is not stored makes the size exceed
\* max_size, exactly one entry is removed, and it is the entry that was
\* touched least recently (a touch: a set of the key, or a get that returned
\* its value); every other entry and the new one are stored afterwards.
C1_EvictsLeastRecentlyTouched ==
    [][(/\ last'.op = "set"
        /\ ~Contains(cache, last'.key)
        /\ Len(cache) + 1 > max_size)
       => /\ KeysOf(cache') =
                (KeysOf(cache) \cup {last'.key}) \ {LeastRecentlyTouched(last'.key)}
          /\ Len(cache') = Len(cache)
          /\ last'.evicted = LeastRecentlyTouched(last'.key)]_vars

\* C1 witness: capacity 2, set A, set B, get A, set C: B was evicted and A,
\* which was read once, is kept together with C.
C1_Witness ==
    /\ max_size = 2
    /\ last.op = "set" /\ last.key = "C" /\ last.evicted = "B"
    /\ KeysOf(cache) = {"A", "C"}
    /\ EntryOf(cache, "A").hit_count = 1

\* C2: a get of a key whose entry has expires_at at or before the current
\* time returns absent and removes that entry (the size decreases by one);
\* a get that returns a value returns the value of a stored entry whose
\* expires_at is still in the future.
C2_ExpiredIsAbsentAndRemoved ==
    [][last'.op = "get" =>
        /\ (Contains(cache, last'.key)
            /\ EntryOf(cache, last'.key).expires_at <= now)
           => /\ last'.value = None
              /\ ~Contains(cache', last'.key)
              /\ Len(cache') = Len(cache) - 1
        /\ last'.value # None
           => /\ Contains(cache, last'.key)
              /\ now < EntryOf(cache, last'.key).expires_at
              /\ last'.value = EntryOf(cache, last'.key).value]_vars

\* C2 witness: a get found an expired entry, returned absent and removed it.
C2_Witness ==
    /\ last.op = "get" /\ last.value = None /\ last.n = 1
    /\ ~Contains(cache, last.key)
    /\ now > 0

\* C3: after every operation the number of stored entries is at most
\* max_size, and a set removes at most one entry.
C3_SizeWithinCapacity ==
    /\ Len(cache) <= max_size
    /\ last.op = "set" => last.n <= 1

\* C3 witness: a set on a full cache of capacity 2 removed one entry and left
\* the cache full.
C3_Witness ==
    /\ last.op = "set" /\ last.n = 1
    /\ max_size = 2 /\ Len(cache) = 2

----------------------------------------------------------------------------
(* Strings.  A str is the sequence of its characters; the words the program *)
(* itself writes ("context", the scope and dimension names) are single      *)
(* symbols.  An Optional[str] is <<>> for None and <<s>> for the string s.   *)

Colon == <<":">>
NoStr == <<>>
Some(str) == <<str>>

\* Python truthiness of an Optional[str]: None and "" are falsy
Truthy(opt) == opt # NoStr /\ opt[1] # <<>>

RECURSIVE Join(_)
\* ":".join(parts)
Join(parts) ==
    IF Len(parts) = 0 THEN <<>>
    ELSE IF Len(parts) = 1 THEN parts[1]
    ELSE parts[1] \o Colon \o Join(Tail(parts))

\* the symbols strings are made of in this model, with their codes
Alphabet == <<":", "a", "b", "c", "t1", "c1", "c2",
              "minimal", "standard", "comprehensive", "bogus",
              "WHO", "WHAT", "WHERE", "WHEN", "WHY">>

Code(ch) == CHOOSE i \in 1..Len(Alphabet) : Alphabet[i] = ch

\* number of hex digits of the digest kept in the key: key_hash[:8]
HashDigits == 8

RECURSIVE HexDigit(_, _, _)
\* digit number d of the digest of str, h being the digit's running value:
\* hashlib.md5 is represented by a digest of the same width whose digits
\* each depend on every character of the string and on nothing else
HexDigit(str, d, h) ==
    IF Len(str) = 0 THEN h
    ELSE HexDigit(Tail(str), d, (h * (2 * d + 1) + Code(Head(str)) + d) % 16)

\* hashlib.md5(key_string.encode()).hexdigest()[:8]
Md5Hex8(str) == [d \in 1..HashDigits |-> HexDigit(str, d, d)]

\* CacheManager._generate_cache_key: key_parts
KeyParts(client_id, case_id, scope, dimension) ==
    IF Truthy(dimension) THEN <<client_id, case_id, scope, dimension[1]>>
    ELSE <<client_id, case_id, scope>>

\* CacheManager._generate_cache_key:
\*   f"context:{client_id}:{case_id}:{scope}:{key_hash[:8]}"
\* (the digest, a row of hex digits, is kept as one element at the end)
generate_cache_key(client_id, case_id, scope, dimension) ==
    <<"context">> \o Colon \o client_id \o Colon \o case_id \o Colon \o scope
        \o Colon \o <<Md5Hex8(Join(KeyParts(client_id, case_id, scope, dimension)))>>

----------------------------------------------------------------------------
(* Key generation on its own: SpecKey *)

KeyClients == {<<"a">>, <<"a", ":", "b">>}
KeyCases == {<<"c">>, <<"b", ":", "c">>}
KeyScopes == {<<"minimal">>, <<"standard">>}
KeyDimensions == {NoStr, Some(<<"WHO">>), Some(<<"WHAT">>)}

KeyInputs ==
    [client_id : KeyClients, case_id : KeyCases, scope : KeyScopes,
     dimension : KeyDimensions]

KeyCall(in) ==
    [in |-> in,
     key |-> generate_cache_key(in.client_id, in.case_id, in.scope, in.dimension)]

InitKey ==
    /\ cache = <<>>
    /\ max_size = 0
    /\ default_ttl = DefaultTtl
    /\ now = 0
    /\ last = NoOp
    /\ touched = <<>>
    /\ gen = <<>>
    /\ NoManager
    /\ NoBuild

GenerateKey(in) ==
    /\ gen' = IF Len(gen) < 2 THEN Append(gen, KeyCall(in))
              ELSE <<gen[2], KeyCall(in)>>
    /\ UNCHANGED <<lruVars, mgrVars, buildVars>>

NextKey == \E in \in KeyInputs : GenerateKey(in)

SpecKey == InitKey /\ [][NextKey]_vars

\* C7: the cache key is a function of (tenant id, case id, scope, optional
\* dimension): two calls with equal arguments return equal keys, and two
\* calls whose arguments differ in any of the four fields return different
\* keys.
C7_KeyInjective ==
    Len(gen) = 2 =>
        /\ gen[1].in = gen[2].in => gen[1].key = gen[2].key
        /\ gen[1].in # gen[2].in => gen[1].key # gen[2].key

\* the digest standing for md5 separates all the strings of this model: two
\* calls return the same key only when they hashed the same key_string
KeyDigestSeparates ==
    Len(gen) = 2 /\ gen[1].key = gen[2].key =>
        Join(KeyParts(gen[1].in.client_id, gen[1].in.case_id,
                      gen[1].in.scope, gen[1].in.dimension))
        = Join(KeyParts(gen[2].in.client_id, gen[2].in.case_id,
                        gen[2].in.scope, gen[2].in.dimension))

----------------------------------------------------------------------------
(* CacheManager: configuration *)

\* CacheManager.MEMORY_TTL, ACTIVE_CASE_TTL, CLOSED_CASE_TTL (seconds)
MEMORY_TTL == 600
ACTIVE_CASE_TTL == 3600
CLOSED_CASE_TTL == 86400
\* LRUCache(max_size=1000, default_ttl=self.MEMORY_TTL)
MemoryMaxSize == 1000

\* the scope names CacheManager.delete walks when scope is omitted
AllScopes == {<<"minimal">>, <<"standard">>, <<"comprehensive">>}

CaseStatuses == {"active", "closed"}

----------------------------------------------------------------------------
(* Optional tiers.  The I/O methods of CacheManager are placeholders in the  *)
(* source; behind "store" stands a key-value store that honours the tier    *)
(* interface (get/set/delete by key, entries expiring after their ttl).      *)

StoreHas(store, key, t) == \E e \in store : e.key = key /\ t < e.expires_at

StoreGet(store, key, t) ==
    IF StoreHas(store, key, t)
    THEN (CHOOSE e \in store : e.key = key /\ t < e.expires_at).value
    ELSE None

StoreSet(store, key, value, ttl, t) ==
    {e \in store : e.key # key}
        \cup {[key |-> key, value |-> value, expires_at |-> t + ttl]}

StoreDelete(store, key) == {e \in store : e.key # key}

\* CacheManager._get_from_redis
get_from_redis(backend, store, key, t) ==
    IF backend = "placeholder" THEN None ELSE StoreGet(store, key, t)

\* CacheManager._set_in_redis: the tier's contents afterwards
set_in_redis(backend, store, key, value, ttl, t) ==
    IF backend = "placeholder" THEN store ELSE StoreSet(store, key, value, ttl, t)

\* CacheManager._delete_from_redis: the returned flag
delete_from_redis(backend, store, key, t) ==
    IF backend = "placeholder" THEN FALSE ELSE StoreHas(store, key, t)

\* CacheManager._delete_from_redis: the tier's contents afterwards
redis_without(backend, store, key) ==
    IF backend = "placeholder" THEN store ELSE StoreDelete(store, key)

\* CacheManager._get_from_database
get_from_database(backend, store, key, t) ==
    IF backend = "placeholder" THEN None ELSE StoreGet(store, key, t)

\* CacheManager._set_in_database: the tier's contents afterwards
set_in_database(backend, store, key, value, case_id, case_status, t) ==
    IF backend = "placeholder" THEN store
    ELSE StoreSet(store, key, value,
                  IF case_status = "active" THEN ACTIVE_CASE_TTL ELSE CLOSED_CASE_TTL,
                  t)

\* CacheManager._delete_from_database: the returned flag
delete_from_database(backend, store, key, t) ==
    IF backend = "placeholder" THEN FALSE ELSE StoreHas(store, key, t)

\* CacheManager._delete_from_database: the tier's contents afterwards
database_without(backend, store, key) ==
    IF backend = "placeholder" THEN store ELSE StoreDelete(store, key)

----------------------------------------------------------------------------
(* CacheManager.get / set / delete as functions of the state *)

\* arguments the CacheManager is called with
MgrClients == {<<"t1">>}
MgrCases == {<<"c1">>}
MgrScopes == AllScopes \cup {<<"bogus">>}
MgrDimensions == {NoStr, Some(<<"WHO">>)}

\* self._generate_cache_key(client_id, case_id, scope, dimension), tabulated
\* over the arguments the model calls it with
CacheKeyTable ==
    {<<in, generate_cache_key(in.client_id, in.case_id, in.scope, in.dimension)>> :
        in \in [client_id : MgrClients, case_id : MgrCases, scope : MgrScopes,
                dimension : MgrDimensions]}

CacheKey(client_id, case_id, scope, dimension) ==
    (CHOOSE row \in CacheKeyTable :
        row[1] = [client_id |-> client_id, case_id |-> case_id,
                  scope |-> scope, dimension |-> dimension])[2]

\* mutation of PromoteToMemory: a slower-tier hit is returned without being
\* written to the memory tier
PromoteToMemory_skip(em, c, key, value, t, max, dflt) == c

\* CacheManager.get, "Populate memory cache":
\*   self.memory_cache.set(cache_key, value, ttl=self.MEMORY_TTL)
PromoteToMemory(em, c, key, value, t, max, dflt) ==
    IF em THEN LRUSetCache(c, key, value, <<MEMORY_TTL>>, "active", t, max, dflt)
    ELSE c

\* CacheManager.get, "Populate faster tiers" after a database hit:
\*   self._set_in_redis(cache_key, value, ttl=self.ACTIVE_CASE_TTL)
PromoteToRedis(er, backend, store, key, value, t) ==
    IF er THEN set_in_redis(backend, store, key, value, ACTIVE_CASE_TTL, t)
    ELSE store

\* mutation of StatsAfterGet: a miss in the memory tier is not counted
StatsAfterGet_nomiss(s, askMem, memHit, askRedis, redisHit, askDb, dbHit) ==
    [s EXCEPT !.memory_hits = @ + (IF memHit THEN 1 ELSE 0),
              !.redis_hits = @ + (IF redisHit THEN 1 ELSE 0),
              !.redis_misses = @ + (IF askRedis /\ ~redisHit THEN 1 ELSE 0),
              !.db_hits = @ + (IF dbHit THEN 1 ELSE 0),
              !.db_misses = @ + (IF askDb /\ ~dbHit THEN 1 ELSE 0)]

\* CacheManager.get: self.stats["<tier>_hits"] += 1 where the tier returned
\* the value, self.stats["<tier>_misses"] += 1 where it was asked and did not
StatsAfterGet(s, askMem, memHit, askRedis, redisHit, askDb, dbHit) ==
    [s EXCEPT !.memory_hits = @ + (IF memHit THEN 1 ELSE 0),
              !.memory_misses = @ + (IF askMem /\ ~memHit THEN 1 ELSE 0),
              !.redis_hits = @ + (IF redisHit THEN 1 ELSE 0),
              !.redis_misses = @ + (IF askRedis /\ ~redisHit THEN 1 ELSE 0),
              !.db_hits = @ + (IF dbHit THEN 1 ELSE 0),
              !.db_misses = @ + (IF askDb /\ ~dbHit THEN 1 ELSE 0)]

\* CacheManager.get: the returned value, the tier that served it, the tiers
\* consulted in order, and the memory and redis tiers afterwards
ManagerGet(client_id, case_id, scope, dimension) ==
    LET key == CacheKey(client_id, case_id, scope, dimension)
        em == enable_memory_cache
        memVal == IF em THEN LRUGetResult(cache, key, now) ELSE None
        cache1 == IF em THEN LRUGetCache(cache, key, now) ELSE cache
        memHit == em /\ LRUGetHit(cache, key, now)
        askRedis == ~memHit /\ enable_redis_cache
        redisVal == IF askRedis
                    THEN get_from_redis(tier_backend, redis, key, now) ELSE None
        redisHit == askRedis /\ redisVal # None
        askDb == ~memHit /\ ~redisHit /\ enable_db_cache
        dbVal == IF askDb
                 THEN get_from_database(tier_backend, db, key, now) ELSE None
        dbHit == askDb /\ dbVal # None
    IN  [key |-> key,
         value |-> IF memHit THEN memVal
                   ELSE IF redisHit THEN redisVal ELSE dbVal,
         tier |-> IF memHit THEN "memory"
                  ELSE IF redisHit THEN "redis"
                  ELSE IF dbHit THEN "db" ELSE None,
         consulted |-> (IF em THEN <<"memory">> ELSE <<>>)
                       \o (IF askRedis THEN <<"redis">> ELSE <<>>)
                       \o (IF askDb THEN <<"db">> ELSE <<>>),
         cache |-> IF memHit THEN cache1
                   ELSE IF redisHit
                   THEN PromoteToMemory(em, cache1, key, redisVal, now,
                                        max_size, default_ttl)
                   ELSE IF dbHit
                   THEN PromoteToMemory(em, cache1, key, dbVal, now,
                                        max_size, default_ttl)
                   ELSE cache1,
         redis |-> IF dbHit
                   THEN PromoteToRedis(enable_redis_cache, tier_backend, redis,
                                       key, dbVal, now)
                   ELSE redis,
         stats |-> StatsAfterGet(stats, em, memHit, askRedis, redisHit,
                                 askDb, dbHit)]

\* mutation of RedisDbTtl: the case status is ignored
RedisDbTtl_same(case_status) == ACTIVE_CASE_TTL

\* CacheManager.set: redis_db_ttl
RedisDbTtl(case_status) ==
    IF case_status = "active" THEN ACTIVE_CASE_TTL ELSE CLOSED_CASE_TTL

\* mutation of ManagerSet: the memory tier is written with the TTL selected
\* by the case status
ManagerSet_statusTtl(client_id, case_id, scope, value, case_status, dimension) ==
    LET key == CacheKey(client_id, case_id, scope, dimension)
    IN  [key |-> key,
         cache |-> IF enable_memory_cache
                   THEN LRUSetCache(cache, key, value,
                                    <<RedisDbTtl(case_status)>>, case_status,
                                    now, max_size, default_ttl)
                   ELSE cache,
         redis |-> redis,
         db |-> db,
         stats |-> [stats EXCEPT !.total_sets = @ + 1]]

\* CacheManager.set: the three tiers and the counters afterwards
ManagerSet(client_id, case_id, scope, value, case_status, dimension) ==
    LET key == CacheKey(client_id, case_id, scope, dimension)
    IN  [key |-> key,
         cache |-> IF enable_memory_cache
                   THEN LRUSetCache(cache, key, value, <<MEMORY_TTL>>, case_status,
                                    now, max_size, default_ttl)
                   ELSE cache,
         redis |-> IF enable_redis_cache
                   THEN set_in_redis(tier_backend, redis, key, value,
                                     RedisDbTtl(case_status), now)
                   ELSE redis,
         db |-> IF enable_db_cache
                THEN set_in_database(tier_backend, db, key, value, case_id,
                                     case_status, now)
                ELSE db,
         stats |-> [stats EXCEPT !.total_sets = @ + 1]]

\* mutation of DeleteScopes: the walk over the scope names stops one short
DeleteScopes_short(scope) ==
    IF Truthy(scope) THEN {scope[1]} ELSE {<<"minimal">>, <<"standard">>}

\* CacheManager.delete: the scopes whose key is deleted ("if scope:")
DeleteScopes(scope) == IF Truthy(scope) THEN {scope[1]} ELSE AllScopes

RECURSIVE DeleteKeys(_, _, _, _, _)
\* CacheManager.delete: the keys in `keys` are deleted from every enabled
\* tier one after the other; deleted_count and the tiers afterwards
DeleteKeys(keys, c, r, d, count) ==
    IF keys = {} THEN [cache |-> c, redis |-> r, db |-> d, n |-> count]
    ELSE LET key == CHOOSE k \in keys : TRUE
             inMem == enable_memory_cache /\ LRUDeleteResult(c, key)
             inRedis == enable_redis_cache
                        /\ delete_from_redis(tier_backend, r, key, now)
             inDb == enable_db_cache
                     /\ delete_from_database(tier_backend, d, key, now)
         IN  DeleteKeys(keys \ {key},
                        IF enable_memory_cache THEN LRUDeleteCache(c, key) ELSE c,
                        IF enable_redis_cache
                        THEN redis_without(tier_backend, r, key) ELSE r,
                        IF enable_db_cache
                        THEN database_without(tier_backend, d, key) ELSE d,
                        count + (IF inMem THEN 1 ELSE 0)
                              + (IF inRedis THEN 1 ELSE 0)
                              + (IF inDb THEN 1 ELSE 0))

\* CacheManager.delete
ManagerDelete(client_id, case_id, scope, dimension) ==
    DeleteKeys({CacheKey(client_id, case_id, sc, dimension) :
                    sc \in DeleteScopes(scope)},
               cache, redis, db, 0)

----------------------------------------------------------------------------
(* The CacheManager object: SpecManager *)

\* the call that completed last: op, its arguments, the value get returned
\* or set stored, the tier that served a get, the tiers a get consulted,
\* and the count delete returned
MNoOp == [op |-> "init", client_id |-> <<>>, case_id |-> <<>>, scope |-> NoStr,
          value |-> None, tier |-> None, consulted |-> <<>>, n |-> 0,
          dimension |-> NoStr, case_status |-> None]

MCall(op, client_id, case_id, scope) ==
    [MNoOp EXCEPT !.op = op, !.client_id = client_id, !.case_id = case_id,
                  !.scope = scope]

InitManager ==
    /\ enable_memory_cache \in BOOLEAN
    /\ enable_redis_cache \in BOOLEAN
    /\ enable_db_cache \in BOOLEAN
    /\ tier_backend \in {"placeholder", "store"}
    /\ cache = <<>>
    /\ max_size = MemoryMaxSize
    /\ default_ttl = MEMORY_TTL
    /\ redis = {}
    /\ db = {}
    /\ stats = ZeroStats
    /\ now = 0
    /\ last = MNoOp
    /\ touched = <<>>
    /\ gen = <<>>
    /\ NoBuild

\* (the statistics counters are followed in SpecStats and in the builder's
\* specifications; get, set and delete never read them)
MgrFrame == UNCHANGED <<max_size, default_ttl, touched, gen, enable_memory_cache,
                        enable_redis_cache, enable_db_cache, tier_backend,
                        stats, buildVars>>

MGet(client_id, case_id, scope) ==
    LET out == ManagerGet(client_id, case_id, scope, NoStr)
    IN  /\ Contains(cache, out.key) => EntryOf(cache, out.key).hit_count < MaxHits
        /\ cache' = out.cache
        /\ redis' = out.redis
        /\ last' = [MCall("get", client_id, case_id, Some(scope))
                        EXCEPT !.value = out.value, !.tier = out.tier,
                               !.consulted = out.consulted]
        /\ UNCHANGED <<db, now>>
        /\ MgrFrame

MSet(client_id, case_id, scope, value, case_status) ==
    LET out == ManagerSet(client_id, case_id, scope, value, case_status, NoStr)
    IN  /\ cache' = out.cache
        /\ redis' = out.redis
        /\ db' = out.db
        /\ last' = [MCall("set", client_id, case_id, Some(scope))
                        EXCEPT !.value = value]
        /\ UNCHANGED now
        /\ MgrFrame

MDelete(client_id, case_id, scope) ==
    LET out == ManagerDelete(client_id, case_id, Some(scope), NoStr)
    IN  /\ cache' = out.cache
        /\ redis' = out.redis
        /\ db' = out.db
        /\ last' = [MCall("delete", client_id, case_id, Some(scope))
                        EXCEPT !.n = out.n]
        /\ UNCHANGED now
        /\ MgrFrame

\* CacheManager.invalidate_case: self.delete(client_id, case_id)
MInvalidateCase(client_id, case_id) ==
    LET out == ManagerDelete(client_id, case_id, NoStr, NoStr)
    IN  /\ cache' = out.cache
        /\ redis' = out.redis
        /\ db' = out.db
        /\ last' = [MCall("invalidate_case", client_id, case_id, NoStr)
                        EXCEPT !.n = out.n]
        /\ UNCHANGED now
        /\ MgrFrame

\* time passes: one memory-tier lifetime
MTick ==
    /\ now < MaxTime * MEMORY_TTL
    /\ now' = now + MEMORY_TTL
    /\ last' = [MNoOp EXCEPT !.op = "tick"]
    /\ UNCHANGED <<cache, redis, db>>
    /\ MgrFrame

\* the distributed tier is shared and volatile: it may drop an entry on its
\* own (memory pressure, restart)
RedisDrop(key) ==
    /\ tier_backend = "store"
    /\ \E e \in redis : e.key = key
    /\ redis' = StoreDelete(redis, key)
    /\ last' = [MNoOp EXCEPT !.op = "drop"]
    /\ UNCHANGED <<cache, db, now>>
    /\ MgrFrame

\* the optional tiers, whose writes are I/O and can raise
FailingTiers == {"redis", "db"}

\* CacheManager.set when the write to the tier `failing` raises: set has no
\* exception handler, so the statements before the write have run, the
\* exception leaves set, and the statements after the write do not run
ManagerSetRaising(client_id, case_id, scope, value, status, dimension, failing) ==
    LET out == ManagerSet(client_id, case_id, scope, value, status, dimension)
    IN  [key |-> out.key,
         cache |-> out.cache,
         redis |-> IF failing = "db" THEN out.redis ELSE redis,
         db |-> db]

\* set(...) during which the write to an enabled optional tier raises
MSetRaises(client_id, case_id, scope, value, case_status, failing) ==
    LET out == ManagerSetRaising(client_id, case_id, scope, value, case_status,
                                 NoStr, failing)
    IN  /\ tier_backend = "store"
        /\ failing = "redis" => enable_redis_cache
        /\ failing = "db" => enable_db_cache
        /\ cache' = out.cache
        /\ redis' = out.redis
        /\ db' = out.db
        /\ last' = [MCall("set_raised", client_id, case_id, Some(scope))
                        EXCEPT !.value = value, !.tier = failing]
        /\ UNCHANGED now
        /\ MgrFrame

\* SpecManager: every tier configuration, two scopes of one case, two values
TwoScopes == {<<"minimal">>, <<"standard">>}

NextManager ==
    \/ \E cl \in MgrClients, ca \in MgrCases, sc \in TwoScopes : MGet(cl, ca, sc)
    \/ \E cl \in MgrClients, ca \in MgrCases, sc \in TwoScopes,
          v \in Values, st \in CaseStatuses : MSet(cl, ca, sc, v, st)
    \/ \E cl \in MgrClients, ca \in MgrCases, sc \in TwoScopes : MDelete(cl, ca, sc)
    \/ \E cl \in MgrClients, ca \in MgrCases : MInvalidateCase(cl, ca)
    \/ \E e \in redis : RedisDrop(e.key)
    \/ MTick

SpecManager == InitManager /\ [][NextManager]_vars

\* SpecInvalidate: every tier configuration, the three scopes of one case,
\* one value and one case status
OneValue == {"v1"}

NextInvalidate ==
    \/ \E cl \in MgrClients, ca \in MgrCases, sc \in AllScopes : MGet(cl, ca, sc)
    \/ \E cl \in MgrClients, ca \in MgrCases, sc \in AllScopes, v \in OneValue :
          MSet(cl, ca, sc, v, "active")
    \/ \E cl \in MgrClients, ca \in MgrCases, sc \in AllScopes : MDelete(cl, ca, sc)
    \/ \E cl \in MgrClients, ca \in MgrCases : MInvalidateCase(cl, ca)
    \/ MTick

SpecInvalidate == InitManager /\ [][NextInvalidate]_vars

\* SpecTierFailure: every tier configuration, two scopes of one case, two
\* values, sets whose write to an optional tier may raise
NextTierFailure ==
    \/ \E cl \in MgrClients, ca \in MgrCases, sc \in TwoScopes, v \in Values :
          MSet(cl, ca, sc, v, "active")
    \/ \E cl \in MgrClients, ca \in MgrCases, sc \in TwoScopes, v \in Values,
          f \in FailingTiers : MSetRaises(cl, ca, sc, v, "active", f)
    \/ \E cl \in MgrClients, ca \in MgrCases, sc \in TwoScopes : MDelete(cl, ca, sc)

SpecTierFailure == InitManager /\ [][NextTierFailure]_vars

\* get(client_id, case_id, scope, dimension)
MGetDimension(client_id, case_id, scope, dimension) ==
    LET out == ManagerGet(client_id, case_id, scope, dimension)
    IN  /\ Contains(cache, out.key) => EntryOf(cache, out.key).hit_count < MaxHits
        /\ cache' = out.cache
        /\ redis' = out.redis
        /\ last' = [MCall("get", client_id, case_id, Some(scope))
                        EXCEPT !.value = out.value, !.tier = out.tier,
                               !.consulted = out.consulted,
                               !.dimension = dimension]
        /\ UNCHANGED <<db, now>>
        /\ MgrFrame

\* set(client_id, case_id, scope, value, case_status, dimension)
MSetDimension(client_id, case_id, scope, value, case_status, dimension) ==
    LET out == ManagerSet(client_id, case_id, scope, value, case_status,
                          dimension)
    IN  /\ cache' = out.cache
        /\ redis' = out.redis
        /\ db' = out.db
        /\ last' = [MCall("set", client_id, case_id, Some(scope))
                        EXCEPT !.value = value, !.dimension = dimension]
        /\ UNCHANGED now
        /\ MgrFrame

\* SpecDimension: every tier configuration, two scopes of one case, entries
\* stored with and without a dimension name
NextDimension ==
    \/ \E cl \in MgrClients, ca \in MgrCases, sc \in TwoScopes,
          dim \in MgrDimensions : MGetDimension(cl, ca, sc, dim)
    \/ \E cl \in MgrClients, ca \in MgrCases, sc \in TwoScopes, v \in OneValue,
          dim \in MgrDimensions : MSetDimension(cl, ca, sc, v, "active", dim)
    \/ \E cl \in MgrClients, ca \in MgrCases : MInvalidateCase(cl, ca)

SpecDimension == InitManager /\ [][NextDimension]_vars

----------------------------------------------------------------------------
(* Claims about the CacheManager *)

\* the enabled tiers in the order get consults them
EnabledTiers ==
    (IF enable_memory_cache THEN <<"memory">> ELSE <<>>)
        \o (IF enable_redis_cache THEN <<"redis">> ELSE <<>>)
        \o (IF enable_db_cache THEN <<"db">> ELSE <<>>)

SomeTierEnabled == enable_memory_cache \/ enable_redis_cache \/ enable_db_cache

\* the memory tier c holds an unexpired entry key -> value at time t
MemoryHolds(c, key, value, t) ==
    /\ Contains(c, key)
    /\ EntryOf(c, key).value = value
    /\ ~is_expired(EntryOf(c, key), t)

SameEntry(a, b) ==
    a.client_id = b.client_id /\ a.case_id = b.case_id /\ a.scope = b.scope

LastKey(call) == CacheKey(call.client_id, call.case_id, call.scope[1], NoStr)

\* C4: for every combination of enabled tiers, set(tenant, case, scope, v,
\* case_status) immediately followed by get(tenant, case, scope), with nothing
\* in between and before any expiry, returns v.  (Stated for the tier methods
\* as the source has them, and for the combinations with at least one tier.)
C4_SetThenGetReturnsValue ==
    [][(/\ tier_backend = "placeholder"
        /\ SomeTierEnabled
        /\ last.op = "set"
        /\ last'.op = "get"
        /\ SameEntry(last, last'))
       => last'.value = last.value]_vars

\* a get is served by the last tier it consulted, or by none after it
\* consulted every enabled tier; the tiers are consulted in the fixed order
GetConsultsInOrder(call) ==
    /\ Len(call.consulted) <= Len(EnabledTiers)
    /\ call.consulted = SubSeq(EnabledTiers, 1, Len(call.consulted))
    /\ IF call.tier = None THEN call.consulted = EnabledTiers
       ELSE /\ call.consulted # <<>>
            /\ call.consulted[Len(call.consulted)] = call.tier

CaseKeys(client_id, case_id) ==
    {CacheKey(client_id, case_id, sc, NoStr) : sc \in AllScopes}

\* the number of entries the tiers hold
EntryCount(c, r, d) == Len(c) + Cardinality(r) + Cardinality(d)

\* C6: invalidate_case(tenant, case) leaves no entry for the scopes minimal,
\* standard and comprehensive of the case in any tier, returns the number
\* of entries it removed, and a following get for any of the three scopes
\* returns absent.
C6_InvalidateCaseRemovesAll ==
    [][/\ last'.op = "invalidate_case" =>
            /\ \A key \in CaseKeys(last'.client_id, last'.case_id) :
                   /\ ~Contains(cache', key)
                   /\ \A e \in redis' \cup db' : e.key # key
            /\ last'.n = EntryCount(cache, redis, db)
                           - EntryCount(cache', redis', db')
       /\ (last.op = "invalidate_case" /\ last'.op = "get") =>
            last'.value = None]_vars

\* the three scopes were stored and invalidate_case has removed all three
C6_Witness ==
    /\ last.op = "invalidate_case"
    /\ last.n = 3
    /\ cache = <<>>

----------------------------------------------------------------------------
(* ContextBuilder: dimensions, analyzer results and their scores *)

\* the order in which _build_dimensions_parallel creates the analyzer tasks
Dimensions == <<"WHO", "WHAT", "WHERE", "WHEN", "WHY">>

\* valid_dimensions
DimensionSet == {Dimensions[i] : i \in 1..Len(Dimensions)}

Range(s) == {s[i] : i \in 1..Len(s)}

\* mutation of SCOPES: standard leaves out WHERE
SCOPES_nowhere(scope) ==
    IF scope = <<"minimal">> THEN <<"WHO", "WHERE">>
    ELSE IF scope = <<"standard">> THEN <<"WHO", "WHAT", "WHEN">>
    ELSE Dimensions

\* ContextBuilder.SCOPES
SCOPES(scope) ==
    IF scope = <<"minimal">> THEN <<"WHO", "WHERE">>
    ELSE IF scope = <<"standard">> THEN <<"WHO", "WHAT", "WHERE", "WHEN">>
    ELSE <<"WHO", "WHAT", "WHERE", "WHEN", "WHY">>

\* ContextBuilder._determine_dimensions.  include_dimensions is the list
\* given, <<>> standing for None and for the empty list (both falsy)
determine_dimensions(scope, include_dimensions) ==
    IF include_dimensions # <<>>
    THEN IF Range(include_dimensions) \ DimensionSet # {}
         THEN [raised |-> "ValueError", dims |-> <<>>]
         ELSE [raised |-> None, dims |-> include_dimensions]
    ELSE IF scope \notin AllScopes
         THEN [raised |-> "ValueError", dims |-> <<>>]
         ELSE [raised |-> None, dims |-> SCOPES(scope)]

\* a dimension context as far as scoring reads it.  points: the length of
\* its lists taken together (for WHERE: how many of primary_jurisdiction,
\* court and venue are set); filing: bool(context.filing_date), WHEN only.
\* An Optional context is <<>> for None and <<context>> otherwise.
\* case_name: the display name the analyzer found, a row of characters
DefaultCaseName == <<"Smith v. Jones">>
Ctx(points, filing) ==
    [points |-> points, filing |-> filing, case_name |-> DefaultCaseName]
NoCtx == <<>>

\* scores are kept exact: a per-dimension score is a number of thirtieths
\* (n/10.0 is 3n, k/3.0 is 10k, 0.3 is 9), the composite score a fraction
ScoreUnit == 30

Min(a, b) == IF a <= b THEN a ELSE b

\* ContextBuilder._score_dimension, in thirtieths (the names reaching it are
\* the five legal ones, so the closing "return 0.5" is never taken)
score_dimension(dimension_name, context) ==
    IF context = NoCtx THEN 0
    ELSE IF dimension_name = "WHERE" THEN 10 * context[1].points
    ELSE IF dimension_name = "WHEN"
    THEN Min(ScoreUnit, 3 * context[1].points)
            + (IF context[1].filing THEN 9 ELSE 0)
    ELSE Min(ScoreUnit, 3 * context[1].points)

\* ContextBuilder._count_data_points (for WHERE the context carries the
\* number of primary_jurisdiction, court and venue that are set)
count_data_points(dimension_name, context) ==
    IF context = NoCtx THEN 0
    ELSE IF dimension_name = "WHERE"
    THEN (IF context[1].points = 3 THEN 3 ELSE 0)
    ELSE context[1].points

\* a score as a fraction
Frac(num, den) == [num |-> num, den |-> den]
FracEq(a, b) == a.num * b.den = b.num * a.den
FracGeq(a, b) == a.num * b.den >= b.num * a.den

\* ContextBuilder.COMPLETENESS_THRESHOLD = 0.85
COMPLETENESS_THRESHOLD == Frac(17, 20)

\* sum(dimension_scores), in thirtieths
SumScores(dimension_results) ==
    LET acc[i \in 0..Len(Dimensions)] ==
            IF i = 0 THEN 0
            ELSE acc[i - 1]
                 + (IF Dimensions[i] \in DOMAIN dimension_results
                    THEN score_dimension(Dimensions[i],
                                         dimension_results[Dimensions[i]])
                    ELSE 0)
    IN  acc[Len(Dimensions)]

\* mutation of Successful: a failed dimension counts as successful
Successful_all(dimension_results) == Cardinality(DOMAIN dimension_results)

\* successful_dimensions
Successful(dimension_results) ==
    Cardinality({d \in DOMAIN dimension_results : dimension_results[d] # NoCtx})

\* mutation of FinalScore: the penalty for missing dimensions is left out
FinalScore_nopenalty(dimension_results) ==
    Frac(SumScores(dimension_results),
         ScoreUnit * Cardinality(DOMAIN dimension_results))

\* avg_score * completeness_ratio, before the final clamp
FinalScore(dimension_results) ==
    LET total == Cardinality(DOMAIN dimension_results)
    IN  Frac(SumScores(dimension_results) * Successful(dimension_results),
             ScoreUnit * total * total)

\* min(1.0, max(0.0, final_score))
Clamp(score) == IF score.num > score.den THEN Frac(score.den, score.den) ELSE score

\* ContextBuilder._calculate_context_score
calculate_context_score(dimension_results) ==
    IF Cardinality(DOMAIN dimension_results) = 0 THEN Frac(0, 1)
    ELSE Clamp(FinalScore(dimension_results))

\* dimension_results.get(name)
ResultGet(dimension_results, name) ==
    IF name \in DOMAIN dimension_results THEN dimension_results[name] ELSE NoCtx

\* the client and the case build_context is called for
BuildClient == <<"t1">>
BuildCase == <<"c1">>

\* f"Case {case_id}"
CasePlaceholder(case_id) == <<"Case ">> \o case_id

\* mutation of ResultKeys: the results are kept in the opposite order
ResultKeys_reversed(dimension_results) ==
    SelectSeq(<<"WHY", "WHEN", "WHERE", "WHAT", "WHO">>,
              LAMBDA d : d \in DOMAIN dimension_results)

\* the keys of dimension_results in the order of the dictionary: the order
\* in which _build_dimensions_parallel created the tasks (WHO, WHAT, WHERE,
\* WHEN, WHY), whatever the order of the list it was given
ResultKeys(dimension_results) ==
    SelectSeq(Dimensions, LAMBDA d : d \in DOMAIN dimension_results)

RECURSIVE FirstCaseName(_, _, _)
\* _get_case_name: "for context in dimension_results.values(): ..."
FirstCaseName(dimension_results, keys, case_id) ==
    IF keys = <<>> THEN CasePlaceholder(case_id)
    ELSE LET context == dimension_results[Head(keys)]
         IN  IF /\ context # NoCtx
                /\ context[1].case_name # <<>>
                /\ context[1].case_name # CasePlaceholder(case_id)
             THEN context[1].case_name
             ELSE FirstCaseName(dimension_results, Tail(keys), case_id)

\* ContextBuilder._get_case_name
get_case_name(dimension_results, case_id) ==
    FirstCaseName(dimension_results, ResultKeys(dimension_results), case_id)

\* build_context: the ContextResponse built from dimension_results
BuildResponse(dimension_results) ==
    LET context_score == calculate_context_score(dimension_results)
    IN  [who |-> ResultGet(dimension_results, "WHO"),
         what |-> ResultGet(dimension_results, "WHAT"),
         where |-> ResultGet(dimension_results, "WHERE"),
         when |-> ResultGet(dimension_results, "WHEN"),
         why |-> ResultGet(dimension_results, "WHY"),
         context_score |-> context_score,
         is_complete |-> FracGeq(context_score, COMPLETENESS_THRESHOLD),
         case_name |-> get_case_name(dimension_results, BuildCase),
         cached |-> FALSE]

\* the populated dimensions of a ContextResponse
Populated(r) ==
    {d \in DimensionSet :
        (IF d = "WHO" THEN r.who ELSE IF d = "WHAT" THEN r.what
         ELSE IF d = "WHERE" THEN r.where ELSE IF d = "WHEN" THEN r.when
         ELSE r.why) # NoCtx}

----------------------------------------------------------------------------
(* ContextBuilder._build_dimensions_parallel: the analyzer tasks *)

NotStarted == [state |-> "none", result |-> NoCtx]
Running == [state |-> "running", result |-> NoCtx]
Failed == [state |-> "failed", result |-> NoCtx]
Succeeded(context) == [state |-> "ok", result |-> <<context>>]

Finished(t) == t.state \in {"ok", "failed"}

\* mutation of GatherReady: the first analyzer to finish ends the wait
GatherReady_first(tasks, selected) ==
    \E d \in selected : Finished(tasks[d])

\* asyncio.gather(*tasks.values(), return_exceptions=True) returns once every
\* task has finished, by a result or by an exception
GatherReady(tasks, selected) ==
    \A d \in selected : Finished(tasks[d])

\* mutation of MapResult: the outcome is stored as it came
MapResult_keep(t) == IF t.state = "failed" THEN <<Ctx(0, FALSE)>> ELSE t.result

\* "if isinstance(result, Exception): results[dimension_name] = None
\*  else: results[dimension_name] = result"
MapResult(t) == IF t.state = "failed" THEN NoCtx ELSE t.result

----------------------------------------------------------------------------
(* ContextBuilder.build_context, one action per stretch between awaits *)

\* the builder's own cache manager: create_cache_manager(enable_memory_cache=
\* True, enable_redis_cache=False, enable_db_cache=False)
BuilderCacheManager ==
    /\ enable_memory_cache = TRUE
    /\ enable_redis_cache = FALSE
    /\ enable_db_cache = FALSE
    /\ tier_backend = "placeholder"
    /\ max_size = MemoryMaxSize
    /\ default_ttl = MEMORY_TTL
    /\ cache = <<>>
    /\ redis = {}
    /\ db = {}
    /\ stats = ZeroStats
    /\ now = 0
    /\ last = MNoOp
    /\ touched = <<>>
    /\ gen = <<>>

\* number of build_context calls in one behaviour
MaxRequests == 2

NoTasks == [d \in DimensionSet |-> NotStarted]
NoResults == [d \in {} |-> NoCtx]

InitBuild ==
    /\ BuilderCacheManager
    /\ NoBuild

BuildFrame == UNCHANGED <<max_size, default_ttl, now, touched, gen,
                          enable_memory_cache, enable_redis_cache,
                          enable_db_cache, tier_backend, redis, db,
                          finish_order, completed_tasks, coros>>

\* in the builder's specifications `last` is the call build_context made
\* last on its cache manager: get, set, or one of them raising
CacheCall(op) == [MNoOp EXCEPT !.op = op]

\* mutation of AfterEntry: the cache is checked whatever use_cache says
AfterEntry_always(use_cache) == "CACHE_CHECK"

\* "if use_cache:" at the head of build_context
AfterEntry(use_cache) == IF use_cache THEN "CACHE_CHECK" ELSE "DIMENSION_SELECTION"

\* mutation of MarkCached: the stored composite is returned as it was stored
MarkCached_not(value) == value

\* "cached_context.cached = True"
MarkCached(value) == [value EXCEPT !.cached = TRUE]

\* mutation of ShouldCache: every cache-enabled build is stored
ShouldCache_any(is_complete, use_cache) == use_cache

\* "if is_complete and use_cache:"
ShouldCache(is_complete, use_cache) == is_complete /\ use_cache

\* mutation of CacheReadFailed: the exception reaches the caller
CacheReadFailed_raise == [raised |-> "Exception", pc |-> "DONE"]

\* _check_cache, "except Exception as e: ... return None": a miss
CacheReadFailed == [raised |-> None, pc |-> "DIMENSION_SELECTION"]

\* _cache_context, "except Exception as e: self.logger.warning(...)"
CacheWriteFailed == [raised |-> None, pc |-> "DONE"]

\* build_context is called: up to the cache check
BRequest(scope, include_dimensions, use_cache) ==
    /\ pc \in {"IDLE", "DONE"}
    /\ nreq < MaxRequests
    /\ nreq' = nreq + 1
    /\ req' = [scope |-> scope, include_dimensions |-> include_dimensions,
               use_cache |-> use_cache]
    /\ pc' = AfterEntry(use_cache)
    /\ dims' = <<>>
    /\ task' = NoTasks
    /\ results' = NoResults
    /\ response' = <<>>
    /\ raised' = None
    /\ last' = MNoOp
    /\ UNCHANGED <<cache, stats>>
    /\ BuildFrame

\* _check_cache: cache_manager.get(client_id, case_id, scope); a stored
\* composite is returned with cached = True
BCheckCache ==
    /\ pc = "CACHE_CHECK"
    /\ LET out == ManagerGet(BuildClient, BuildCase, req.scope, NoStr)
       IN  /\ cache' = out.cache
           /\ stats' = out.stats
           /\ IF out.tier # None
              THEN /\ response' = <<MarkCached(out.value)>>
                   /\ pc' = "DONE"
              ELSE /\ response' = response
                   /\ pc' = "DIMENSION_SELECTION"
    /\ last' = CacheCall("get")
    /\ UNCHANGED <<req, dims, task, results, raised, nreq>>
    /\ BuildFrame

\* _check_cache when cache_manager.get (or the rebuilding of the stored
\* composite) raises
BCheckCacheRaises ==
    /\ pc = "CACHE_CHECK"
    /\ raised' = CacheReadFailed.raised
    /\ pc' = CacheReadFailed.pc
    /\ last' = CacheCall("get_raised")
    /\ UNCHANGED <<cache, stats, req, dims, task, results, response, nreq>>
    /\ BuildFrame

\* _determine_dimensions
BDetermineDimensions ==
    /\ pc = "DIMENSION_SELECTION"
    /\ LET out == determine_dimensions(req.scope, req.include_dimensions)
       IN  /\ raised' = out.raised
           /\ dims' = out.dims
           /\ pc' = IF out.raised # None THEN "DONE" ELSE "FAN_OUT"
    /\ UNCHANGED <<cache, stats, last, req, task, results, response, nreq>>
    /\ BuildFrame

\* _build_dimensions_parallel: one task per selected dimension, all handed
\* to asyncio.gather
BFanOut ==
    /\ pc = "FAN_OUT"
    /\ task' = [d \in DimensionSet |->
                    IF d \in Range(dims) THEN Running ELSE NotStarted]
    /\ pc' = "COLLECT"
    /\ UNCHANGED <<cache, stats, last, req, dims, results, response, raised, nreq>>
    /\ BuildFrame

\* an analyzer finishes: analyze() returns a context or raises
BAnalyzerFinish(d, outcome) ==
    /\ pc = "COLLECT"
    /\ task[d].state = "running"
    /\ task' = [task EXCEPT ![d] = outcome]
    /\ UNCHANGED <<cache, stats, last, pc, req, dims, results, response, raised, nreq>>
    /\ BuildFrame

\* gather returns; the outcomes are mapped back to the dimension names
BGather ==
    /\ pc = "COLLECT"
    /\ GatherReady(task, Range(dims))
    /\ results' = [d \in {x \in DimensionSet : task[x].state # "none"} |->
                        MapResult(task[d])]
    /\ pc' = "SCORE"
    /\ UNCHANGED <<cache, stats, last, req, dims, task, response, raised, nreq>>
    /\ BuildFrame

\* _calculate_context_score, is_complete, the ContextResponse
BScore ==
    /\ pc = "SCORE"
    /\ response' = <<BuildResponse(results)>>
    /\ pc' = "CACHE_WRITE"
    /\ UNCHANGED <<cache, stats, last, req, dims, task, results, raised, nreq>>
    /\ BuildFrame

\* "if is_complete and use_cache: await self._cache_context(...)", then the
\* response is returned
BCacheWrite ==
    /\ pc = "CACHE_WRITE"
    /\ IF ShouldCache(response[1].is_complete, req.use_cache)
       THEN LET out == ManagerSet(BuildClient, BuildCase, req.scope,
                                  response[1], "active", NoStr)
            IN  /\ cache' = out.cache
                /\ stats' = out.stats
                /\ last' = CacheCall("set")
       ELSE UNCHANGED <<cache, stats, last>>
    /\ pc' = "DONE"
    /\ UNCHANGED <<req, dims, task, results, response, raised, nreq>>
    /\ BuildFrame

\* _cache_context when cache_manager.set raises
BCacheWriteRaises ==
    /\ pc = "CACHE_WRITE"
    /\ ShouldCache(response[1].is_complete, req.use_cache)
    /\ raised' = CacheWriteFailed.raised
    /\ pc' = CacheWriteFailed.pc
    /\ last' = CacheCall("set_raised")
    /\ UNCHANGED <<cache, stats, req, dims, task, results, response, nreq>>
    /\ BuildFrame

\* arguments of build_context in SpecBuild
BuildScopes == AllScopes \cup {<<"bogus">>}
BuildIncludes == {<<>>, <<"WHEN", "WHO">>, <<"WHO", "BOGUS">>}

\* what the analyzers return in SpecBuild
BuildContexts(d) ==
    IF d = "WHO" THEN {Ctx(7, FALSE), Ctx(10, FALSE)}
    ELSE IF d = "WHERE" THEN {Ctx(3, FALSE)}
    ELSE IF d = "WHEN" THEN {Ctx(10, FALSE), Ctx(10, TRUE)}
    ELSE {Ctx(10, FALSE)}

BuildOutcomes(d) == {Failed} \cup {Succeeded(c) : c \in BuildContexts(d)}

NextBuild ==
    \/ \E sc \in BuildScopes, inc \in BuildIncludes, uc \in BOOLEAN :
          BRequest(sc, inc, uc)
    \/ BCheckCache
    \/ BCheckCacheRaises
    \/ BDetermineDimensions
    \/ BFanOut
    \/ \E d \in DimensionSet : \E o \in BuildOutcomes(d) : BAnalyzerFinish(d, o)
    \/ BGather
    \/ BScore
    \/ BCacheWrite
    \/ BCacheWriteRaises

SpecBuild == InitBuild /\ [][NextBuild]_vars

----------------------------------------------------------------------------
(* Scoring on its own: SpecScore starts where gather has returned, with    *)
(* every combination of analyzer outcomes                                   *)

\* data-point counts the analyzers return: none, below the target of 10, the
\* target, and MaxPoints, beyond the target
MaxPoints == 11
PointChoices == {0, 7, 10, MaxPoints}

ScoreContexts(d) ==
    IF d = "WHERE" THEN {Ctx(k, FALSE) : k \in 0..3}
    ELSE IF d = "WHEN" THEN {Ctx(n, f) : n \in PointChoices, f \in BOOLEAN}
    ELSE {Ctx(n, FALSE) : n \in PointChoices}

ScoreOutcomes(d, selected) ==
    IF d \in selected
    THEN {Failed} \cup {Succeeded(c) : c \in ScoreContexts(d)}
    ELSE {NotStarted}

ScoreIncludes == {<<>>, <<"WHEN">>, <<"WHO", "WHAT">>,
                  <<"WHO", "WHERE", "WHEN">>}

InitScore ==
    /\ BuilderCacheManager
    /\ req \in [scope : AllScopes, include_dimensions : ScoreIncludes,
                use_cache : BOOLEAN]
    /\ req.include_dimensions # <<>> => req.scope = <<"comprehensive">>
    /\ dims = determine_dimensions(req.scope, req.include_dimensions).dims
    /\ \E who \in ScoreOutcomes("WHO", Range(dims)),
          what \in ScoreOutcomes("WHAT", Range(dims)),
          where \in ScoreOutcomes("WHERE", Range(dims)),
          when \in ScoreOutcomes("WHEN", Range(dims)),
          why \in ScoreOutcomes("WHY", Range(dims)) :
            task = [d \in DimensionSet |->
                        IF d = "WHO" THEN who ELSE IF d = "WHAT" THEN what
                        ELSE IF d = "WHERE" THEN where
                        ELSE IF d = "WHEN" THEN when ELSE why]
    /\ results = [d \in Range(dims) |-> MapResult(task[d])]
    /\ pc = "SCORE"
    /\ response = <<>>
    /\ raised = None
    /\ nreq = 1
    /\ finish_order = <<>>
    /\ completed_tasks = <<>>
    /\ coros = <<>>

NextScore ==
    \/ BScore
    \/ BCacheWrite

SpecScore == InitScore /\ [][NextScore]_vars

----------------------------------------------------------------------------
(* Claims about ContextBuilder.build_context *)

\* the call has returned a composite built by fan-out
Built == pc = "DONE" /\ raised = None /\ response # <<>> /\ ~response[1].cached

FailedDims == {d \in Range(dims) : task[d].state = "failed"}

ResponseDim(r, d) ==
    IF d = "WHO" THEN r.who ELSE IF d = "WHAT" THEN r.what
    ELSE IF d = "WHERE" THEN r.where ELSE IF d = "WHEN" THEN r.when ELSE r.why

\* C8: whatever subset of the selected analyzers fails, build_context
\* returns a composite and raises nothing: every selected analyzer has run
\* to its own end, a failed dimension is absent from the composite, a
\* dimension whose analyzer succeeded carries that analyzer's result, and
\* with one of five failing exactly four dimensions are populated.
C8_PartialFailureTolerated ==
    /\ (pc = "DONE" /\ FailedDims # {}) => Built
    /\ Built =>
        /\ \A d \in Range(dims) :
              /\ Finished(task[d])
              /\ task[d].state = "failed" => ResponseDim(response[1], d) = NoCtx
              /\ task[d].state = "ok" => ResponseDim(response[1], d) = task[d].result
        /\ (Len(dims) = 5 /\ Cardinality(FailedDims) = 1) =>
              Cardinality(Populated(response[1])) = 4

\* a comprehensive build returned with one analyzer failed and four populated
C8_Witness ==
    /\ Built
    /\ Len(dims) = 5
    /\ Cardinality(FailedDims) = 1
    /\ Cardinality(Populated(response[1])) = 4

\* C9: in a build not served from cache every selected dimension's analyzer
\* is started and no other; scoring and everything after it happens only
\* once every started analyzer has finished, by success or by failure.
C9_JoinBeforeScore ==
    /\ (pc \in {"COLLECT", "SCORE", "CACHE_WRITE"} \/ Built) =>
          {d \in DimensionSet : task[d].state # "none"} = Range(dims)
    /\ (pc \in {"SCORE", "CACHE_WRITE"} \/ Built) =>
          \A d \in Range(dims) : Finished(task[d])
    /\ (pc = "COLLECT" /\ \E d \in Range(dims) : ~Finished(task[d])) =>
          response = <<>>

\* scoring has begun on a comprehensive build in which analyzers both failed
\* and succeeded, all five having finished
C9_Witness ==
    /\ pc = "SCORE"
    /\ Len(dims) = 5
    /\ \A d \in Range(dims) : Finished(task[d])
    /\ \E d \in Range(dims) : task[d].state = "failed"
    /\ \E d \in Range(dims) : task[d].state = "ok"

\* the mean of the per-dimension scores over the requested dimensions, an
\* absent one counting 0, times successful / requested
MeanTimesRatio(dimension_results) ==
    LET requested == Cardinality(DOMAIN dimension_results)
    IN  Frac(SumScores(dimension_results) * Successful(dimension_results),
             ScoreUnit * requested * requested)

\* C10: the composite score equals (the mean of the per-dimension scores
\* over all requested dimensions, an absent dimension counting as 0) times
\* (successful dimensions / requested dimensions), and is_complete is true
\* exactly when the composite score is at least 0.85.
C10_ScoreIsMeanTimesRatio ==
    (pc \in {"CACHE_WRITE", "DONE"} /\ response # <<>> /\ ~response[1].cached) =>
        /\ FracEq(response[1].context_score, MeanTimesRatio(results))
        /\ response[1].is_complete
              <=> FracGeq(response[1].context_score, COMPLETENESS_THRESHOLD)

\* what the code computes: the product cut off at 1.0
ScoreIsClampedProduct ==
    (pc \in {"CACHE_WRITE", "DONE"} /\ response # <<>> /\ ~response[1].cached) =>
        /\ FracEq(response[1].context_score, Clamp(MeanTimesRatio(results)))
        /\ response[1].is_complete
              <=> FracGeq(response[1].context_score, COMPLETENESS_THRESHOLD)

----------------------------------------------------------------------------
(* Claims about build_context and the cache *)

\* the key build_context reads and writes the cache under
BuildKey == CacheKey(BuildClient, BuildCase, req.scope, NoStr)

\* what the memory tier stores: keys with their values
StoredPairs(c) == {<<c[i].key, c[i].value>> : i \in 1..Len(c)}

\* C11: a freshly built composite is written to the cache exactly when the
\* request is cache-enabled and the composite's score is at least 0.85 (the
\* write itself not failing); nothing else writes an entry, every stored
\* composite is complete, and so is every composite served from the cache.
C11_CachedExactlyWhenComplete ==
    /\ [][(pc = "CACHE_WRITE" /\ pc' = "DONE" /\ last'.op # "set_raised") =>
            IF req.use_cache
               /\ FracGeq(response[1].context_score, COMPLETENESS_THRESHOLD)
            THEN MemoryHolds(cache', BuildKey, response[1], now)
            ELSE cache' = cache]_vars
    /\ [][StoredPairs(cache') # StoredPairs(cache) => pc = "CACHE_WRITE"]_vars
    /\ [](\A i \in 1..Len(cache) :
            /\ cache[i].value.is_complete
            /\ FracGeq(cache[i].value.context_score, COMPLETENESS_THRESHOLD))
    /\ []((response # <<>> /\ response[1].cached) =>
            FracGeq(response[1].context_score, COMPLETENESS_THRESHOLD))

\* a cache-enabled build returned a complete composite and the cache holds it
C11_Witness ==
    /\ Built
    /\ req.use_cache
    /\ last.op = "set"
    /\ response[1].is_complete
    /\ MemoryHolds(cache, BuildKey, response[1], now)

\* C12: when the cache manager returns a stored composite to a cache-enabled
\* request, build_context returns that composite with cached set, selects no
\* dimensions, starts no analyzer and stores nothing; a composite built by
\* fan-out is never flagged as cached.
C12_CacheHitShortCircuits ==
    /\ [][(pc = "CACHE_CHECK" /\ last'.op = "get"
           /\ LRUGetHit(cache, BuildKey, now)) =>
            /\ pc' = "DONE"
            /\ response' = <<[EntryOf(cache, BuildKey).value
                                EXCEPT !.cached = TRUE]>>
            /\ dims' = <<>>
            /\ task' = NoTasks
            /\ StoredPairs(cache') = StoredPairs(cache)]_vars
    /\ []((response # <<>> /\ response[1].cached) =>
            pc = "DONE" /\ dims = <<>> /\ task = NoTasks /\ last.op = "get")
    /\ []((pc = "DONE" /\ task # NoTasks) =>
            response # <<>> /\ ~response[1].cached)

\* the second request was served the composite the first one stored
C12_Witness ==
    /\ pc = "DONE"
    /\ nreq = 2
    /\ response # <<>>
    /\ response[1].cached
    /\ StoredPairs(cache) = {<<BuildKey, [response[1] EXCEPT !.cached = FALSE]>>}

\* C13: a build_context call with use_cache false never reads the cache (nor
\* changes it) and returns a composite with cached false, also when the
\* cache holds an entry for the same tenant, case and scope.
C13_NoCacheBypassesRead ==
    /\ []((pc # "IDLE" /\ ~req.use_cache) =>
            /\ pc # "CACHE_CHECK"
            /\ last.op = "init"
            /\ response # <<>> => ~response[1].cached)
    /\ [][(pc' # "IDLE" /\ ~req'.use_cache) => cache' = cache]_vars

\* a use_cache=False build returned while the cache held an entry for its key
C13_Witness ==
    /\ Built
    /\ ~req.use_cache
    /\ Contains(cache, BuildKey)

\* C14: when the cache manager's get or set raises during build_context,
\* nothing is raised to the caller for it and the composite returned is the
\* one the analyzers' outcomes give with caching disabled.
C14_CacheFailureIsAMiss ==
    (pc = "DONE" /\ ~(response # <<>> /\ response[1].cached)) =>
        LET out == determine_dimensions(req.scope, req.include_dimensions)
        IN  /\ raised = out.raised
            /\ out.raised = None =>
                 /\ dims = out.dims
                 /\ response =
                      <<BuildResponse([d \in Range(dims) |-> MapResult(task[d])])>>

\* the cache held a composite, the read raised, and the request was built
C14_Witness ==
    /\ Built
    /\ last.op = "get_raised"
    /\ Contains(cache, BuildKey)

\* the arguments name an unknown scope or an illegal dimension
InvalidRequest(r) ==
    \/ r.scope \notin AllScopes
    \/ Range(r.include_dimensions) \ DimensionSet # {}

\* C15: build_context called with an unknown scope name, or with an explicit
\* dimension list holding a name outside the five legal ones, ends in
\* ValueError, and does so before the cache is read and before any analyzer
\* is started, whatever the cache holds.
C15_InvalidRequestFailsFast ==
    (pc # "IDLE" /\ InvalidRequest(req)) =>
        /\ last.op = "init"
        /\ task = NoTasks
        /\ pc = "DONE" => raised = "ValueError"


\* the tier holds an unexpired entry key -> value at time t
TierHolds(tier, key, value, t) ==
    IF tier = "memory" THEN MemoryHolds(cache, key, value, t)
    ELSE IF tier = "redis" THEN StoreHas(redis, key, t) /\ StoreGet(redis, key, t) = value
    ELSE StoreHas(db, key, t) /\ StoreGet(db, key, t) = value

C17_DimensionScoreInUnitInterval ==
    \A d \in DOMAIN results :
        /\ 0 <= score_dimension(d, results[d])
        /\ score_dimension(d, results[d]) <= ScoreUnit


FracLess(a, b) == a.num * b.den < b.num * a.den

\* a scored comprehensive build in which exactly one of the five analyzers
\* failed
OneOfFiveFailed ==
    /\ pc \in {"CACHE_WRITE", "DONE"}
    /\ response # <<>>
    /\ ~response[1].cached
    /\ DOMAIN results = DimensionSet
    /\ Cardinality({d \in DimensionSet : results[d] = NoCtx}) = 1

\* dimension_results had the analyzer of d returned context instead
WithSuccess(dimension_results, d, context) ==
    [dimension_results EXCEPT ![d] = <<context>>]

C19_ZeroDataPointsScoreZero ==
    \A d \in DOMAIN results :
        (results[d] # NoCtx /\ count_data_points(d, results[d]) = 0) =>
            score_dimension(d, results[d]) = 0


\* the keys of one case: every scope, with and without a dimension name
CaseDimensionKeys(client_id, case_id) ==
    {CacheKey(client_id, case_id, sc, dim) :
        sc \in AllScopes, dim \in MgrDimensions}

\* C20: after invalidate_case(tenant, case) no cached entry of that tenant
\* and case remains retrievable, entries stored with a dimension name
\* included: no tier holds an entry for any scope and dimension of the case,
\* and a following get(tenant, case, scope, dimension) returns absent.
C20_InvalidateCaseRemovesDimensions ==
    [][/\ last'.op = "invalidate_case" =>
            \A key \in CaseDimensionKeys(last'.client_id, last'.case_id) :
                /\ ~Contains(cache', key)
                /\ \A e \in redis' \cup db' : e.key # key
       /\ (last.op = "invalidate_case" /\ last'.op = "get") =>
            last'.value = None]_vars


----------------------------------------------------------------------------
(* Claims about the CacheManager: degradation, statistics, lifetimes *)

\* only the memory tier is enabled
FastTierOnly ==
    enable_memory_cache /\ ~enable_redis_cache /\ ~enable_db_cache

\* LRUCache.delete applied to the keys of the three scopes, one after the other
LRUDeleteAll(c, client_id, case_id) ==
    LRUDeleteCache(
        LRUDeleteCache(
            LRUDeleteCache(c, CacheKey(client_id, case_id, <<"minimal">>, NoStr)),
            CacheKey(client_id, case_id, <<"standard">>, NoStr)),
        CacheKey(client_id, case_id, <<"comprehensive">>, NoStr))

\* C21: with both optional tiers disabled (and the memory tier, which the
\* specification makes mandatory, enabled) every CacheManager get, set and
\* delete behaves exactly like the same call applied to the LRUCache alone
\* under the generated key: get returns what LRUCache.get returns and leaves
\* the cache as LRUCache.get leaves it, set stores what LRUCache.set with the
\* memory TTL stores, delete removes and counts what LRUCache.delete removes,
\* and the optional tiers are never touched.
C21_DegradesToFastTier ==
    [][FastTierOnly =>
        /\ redis' = redis
        /\ db' = db
        /\ last'.op = "get" =>
              /\ last'.value = LRUGetResult(cache, LastKey(last'), now)
              /\ cache' = LRUGetCache(cache, LastKey(last'), now)
        /\ last'.op = "set" =>
              \E st \in CaseStatuses :
                  cache' = LRUSetCache(cache, LastKey(last'), last'.value,
                                       <<MEMORY_TTL>>, st, now, max_size,
                                       default_ttl)
        /\ last'.op = "delete" =>
              /\ cache' = LRUDeleteCache(cache, LastKey(last'))
              /\ last'.n = IF LRUDeleteResult(cache, LastKey(last')) THEN 1 ELSE 0
        /\ last'.op = "invalidate_case" =>
              /\ cache' = LRUDeleteAll(cache, last'.client_id, last'.case_id)
              /\ last'.n = Len(cache) - Len(cache')]_vars

\* with only the memory tier enabled a get has returned a stored value
C21_Witness ==
    /\ FastTierOnly
    /\ last.op = "get"
    /\ last.value # None
    /\ last.tier = "memory"


----------------------------------------------------------------------------
(* The CacheManager with its statistics: SpecStats *)

\* largest value a counter reaches before the calls that raise it stop
MaxCount == 2

StatsFrame == UNCHANGED <<max_size, default_ttl, touched, gen,
                          enable_memory_cache, enable_redis_cache,
                          enable_db_cache, tier_backend, buildVars>>

\* get(client_id, case_id, scope), counters included
SGet(client_id, case_id, scope) ==
    LET out == ManagerGet(client_id, case_id, scope, NoStr)
    IN  /\ Contains(cache, out.key) => EntryOf(cache, out.key).hit_count < MaxHits
        /\ \A f \in {"memory_hits", "memory_misses", "redis_hits",
                     "redis_misses", "db_hits", "db_misses"} :
               stats[f] < MaxCount
        /\ cache' = out.cache
        /\ redis' = out.redis
        /\ stats' = out.stats
        /\ last' = [MCall("get", client_id, case_id, Some(scope))
                        EXCEPT !.value = out.value, !.tier = out.tier,
                               !.consulted = out.consulted]
        /\ UNCHANGED <<db, now>>
        /\ StatsFrame

\* set(client_id, case_id, scope, value, case_status), counters included
SSet(client_id, case_id, scope, value, case_status) ==
    LET out == ManagerSet(client_id, case_id, scope, value, case_status, NoStr)
    IN  /\ stats.total_sets < MaxCount
        /\ cache' = out.cache
        /\ redis' = out.redis
        /\ db' = out.db
        /\ stats' = out.stats
        /\ last' = [MCall("set", client_id, case_id, Some(scope))
                        EXCEPT !.value = value, !.case_status = case_status]
        /\ UNCHANGED now
        /\ StatsFrame

\* delete(client_id, case_id, scope): self.stats["total_deletes"] += deleted_count
SDelete(client_id, case_id, scope) ==
    LET out == ManagerDelete(client_id, case_id, Some(scope), NoStr)
    IN  /\ stats.total_deletes < MaxCount
        /\ cache' = out.cache
        /\ redis' = out.redis
        /\ db' = out.db
        /\ stats' = [stats EXCEPT !.total_deletes = @ + out.n]
        /\ last' = [MCall("delete", client_id, case_id, Some(scope))
                        EXCEPT !.n = out.n]
        /\ UNCHANGED now
        /\ StatsFrame

\* mutation of ResetStats: only the hit and miss counters are zeroed
ResetStats_hits(s) ==
    [s EXCEPT !.memory_hits = 0, !.memory_misses = 0, !.redis_hits = 0,
              !.redis_misses = 0, !.db_hits = 0, !.db_misses = 0]

\* reset_stats: self.stats = {"memory_hits": 0, ..., "total_deletes": 0}
ResetStats(s) == ZeroStats

\* CacheManager.reset_stats
SResetStats ==
    /\ stats' = ResetStats(stats)
    /\ last' = [MNoOp EXCEPT !.op = "reset_stats"]
    /\ UNCHANGED <<cache, redis, db, now>>
    /\ StatsFrame

\* CacheManager.get_stats: hits / total if total > 0 else 0.0
HitRate(hits, misses) ==
    IF hits + misses > 0 THEN Frac(hits, hits + misses) ELSE Frac(0, 1)

\* CacheManager.get_stats: the hit rates
GetStats(s) ==
    [memory_hit_rate |-> HitRate(s.memory_hits, s.memory_misses),
     redis_hit_rate |-> HitRate(s.redis_hits, s.redis_misses),
     db_hit_rate |-> HitRate(s.db_hits, s.db_misses),
     overall_hit_rate |->
         HitRate(s.memory_hits + s.redis_hits + s.db_hits,
                 s.memory_misses + s.redis_misses + s.db_misses)]

\* SpecStats: every tier configuration, two scopes of one case, one value
NextStats ==
    \/ \E cl \in MgrClients, ca \in MgrCases, sc \in TwoScopes : SGet(cl, ca, sc)
    \/ \E cl \in MgrClients, ca \in MgrCases, sc \in TwoScopes, v \in OneValue,
          st \in CaseStatuses : SSet(cl, ca, sc, v, st)
    \/ \E cl \in MgrClients, ca \in MgrCases, sc \in TwoScopes : SDelete(cl, ca, sc)
    \/ SResetStats

SpecStats == InitManager /\ [][NextStats]_vars


\* the hit and miss counters of one tier
TierStats(s, tier) ==
    IF tier = "memory" THEN <<s.memory_hits, s.memory_misses>>
    ELSE IF tier = "redis" THEN <<s.redis_hits, s.redis_misses>>
    ELSE <<s.db_hits, s.db_misses>>

MemoryOps(s) == s.memory_hits + s.memory_misses

\* C22: each get adds one to exactly one of the hit and miss counters of
\* every tier it consulted (a hit for the tier that returned the value, a
\* miss for each tier passed over) and changes no counter of a tier it did
\* not consult; with only the memory tier enabled memory_hits +
\* memory_misses counts the get calls since the last reset (each get adds
\* one, reset_stats returns it to zero, nothing else changes it) and the
\* reported memory hit rate is hits / (hits + misses), or 0 without any.
C22_StatsCountConsultedTiers ==
    /\ [][/\ last'.op = "get" =>
               \A tier \in {"memory", "redis", "db"} :
                   LET before == TierStats(stats, tier)
                       after == TierStats(stats', tier)
                   IN  IF tier \notin Range(last'.consulted) THEN after = before
                       ELSE IF last'.tier = tier
                       THEN after = <<before[1] + 1, before[2]>>
                       ELSE after = <<before[1], before[2] + 1>>
          /\ FastTierOnly =>
               MemoryOps(stats') =
                   IF last'.op = "get" THEN MemoryOps(stats) + 1
                   ELSE IF last'.op = "reset_stats" THEN 0
                   ELSE MemoryOps(stats)]_vars
    /\ [](FastTierOnly =>
            IF MemoryOps(stats) = 0
            THEN GetStats(stats).memory_hit_rate.num = 0
            ELSE FracEq(GetStats(stats).memory_hit_rate,
                        Frac(stats.memory_hits, MemoryOps(stats))))

\* with only the memory tier enabled, a get that hit after one that missed
C22_Witness ==
    /\ FastTierOnly
    /\ last.op = "get"
    /\ last.tier = "memory"
    /\ stats.memory_hits = 1
    /\ stats.memory_misses = 1


\* C23: reset_stats sets every hit, miss, set and delete counter to zero and
\* leaves the stored entries of every tier, their values, their expiry and
\* their recency order unchanged.
C23_ResetStatsKeepsData ==
    [][last'.op = "reset_stats" =>
          /\ \A f \in DOMAIN stats' : stats'[f] = 0
          /\ DOMAIN stats' = DOMAIN stats
          /\ cache' = cache
          /\ redis' = redis
          /\ db' = db]_vars

\* counters were reset while the memory tier held two entries
C23_Witness ==
    /\ last.op = "reset_stats"
    /\ Len(cache) = 2
    /\ stats.total_sets = 0


\* the lifetime, counted from t, of the entry a store holds for key
StoredTtl(store, key, t) ==
    (CHOOSE e \in store : e.key = key).expires_at - t

\* the lifetime, counted from t, of the entry the memory tier holds for key
MemoryTtl(c, key, t) == EntryOf(c, key).expires_at - t

----------------------------------------------------------------------------
(* Claims about dimension selection and the single-dimension operations *)

\* the dimensions a scope selects when no explicit list is given
ScopeDims(scope) == Range(determine_dimensions(scope, <<>>).dims)

\* C25: with no explicit dimension list, scope minimal selects [WHO, WHERE],
\* standard selects [WHO, WHAT, WHERE, WHEN] and comprehensive selects all
\* five dimensions, so the dimensions of minimal are a strict subset of
\* those of standard, which are a strict subset of those of comprehensive;
\* a non-empty explicit list of legal names overrides the scope.
C25_ScopeSelectsDimensions ==
    /\ (pc \in {"FAN_OUT", "COLLECT", "SCORE", "CACHE_WRITE"}) =>
          dims = IF req.include_dimensions # <<>> THEN req.include_dimensions
                 ELSE IF req.scope = <<"minimal">> THEN <<"WHO", "WHERE">>
                 ELSE IF req.scope = <<"standard">>
                 THEN <<"WHO", "WHAT", "WHERE", "WHEN">>
                 ELSE <<"WHO", "WHAT", "WHERE", "WHEN", "WHY">>
    /\ ScopeDims(<<"minimal">>) \subseteq ScopeDims(<<"standard">>)
    /\ ScopeDims(<<"minimal">>) # ScopeDims(<<"standard">>)
    /\ ScopeDims(<<"standard">>) \subseteq ScopeDims(<<"comprehensive">>)
    /\ ScopeDims(<<"standard">>) # ScopeDims(<<"comprehensive">>)

\* an explicit list has overridden the scope minimal
C25_Witness ==
    /\ pc = "FAN_OUT"
    /\ req.scope = <<"minimal">>
    /\ dims = <<"WHEN", "WHO">>


----------------------------------------------------------------------------
(* The display name of the composite: SpecName *)

\* a dimension context carrying the display name `name`
NamedCtx(name) == [Ctx(10, FALSE) EXCEPT !.case_name = name]

\* display names an analyzer may report: none, the placeholder, two real ones
CaseNames == {<<>>, CasePlaceholder(BuildCase), <<"Smith v. Jones">>,
              <<"Jones v. Smith">>}

NameOutcomes(d, selected) ==
    IF d \in selected
    THEN {Failed} \cup {Succeeded(NamedCtx(n)) : n \in CaseNames}
    ELSE {NotStarted}

\* explicit lists in several orders
NameIncludes == {<<>>, <<"WHY", "WHO">>, <<"WHO", "WHY">>,
                 <<"WHEN", "WHERE", "WHAT">>}

\* build_context when gather has returned, for every combination of
\* analyzer outcomes and display names
InitName ==
    /\ BuilderCacheManager
    /\ req \in [scope : {<<"standard">>}, include_dimensions : NameIncludes,
                use_cache : BOOLEAN]
    /\ dims = determine_dimensions(req.scope, req.include_dimensions).dims
    /\ \E who \in NameOutcomes("WHO", Range(dims)),
          what \in NameOutcomes("WHAT", Range(dims)),
          where \in NameOutcomes("WHERE", Range(dims)),
          when \in NameOutcomes("WHEN", Range(dims)),
          why \in NameOutcomes("WHY", Range(dims)) :
            task = [d \in DimensionSet |->
                        IF d = "WHO" THEN who ELSE IF d = "WHAT" THEN what
                        ELSE IF d = "WHERE" THEN where
                        ELSE IF d = "WHEN" THEN when ELSE why]
    /\ results = [d \in Range(dims) |-> MapResult(task[d])]
    /\ pc = "SCORE"
    /\ response = <<>>
    /\ raised = None
    /\ nreq = 1
    /\ finish_order = <<>>
    /\ completed_tasks = <<>>
    /\ coros = <<>>

SpecName == InitName /\ [][NextScore]_vars

\* the dimension d of the composite r carries a display name that is
\* neither empty nor the placeholder
HasRealName(r, d) ==
    /\ ResponseDim(r, d) # NoCtx
    /\ ResponseDim(r, d)[1].case_name # <<>>
    /\ ResponseDim(r, d)[1].case_name # CasePlaceholder(BuildCase)

\* C26: the composite's display name is the name of the first successful
\* dimension result, scanned in the fixed order WHO, WHAT, WHERE, WHEN, WHY
\* whatever order the caller listed the dimensions in, whose name is
\* non-empty and differs from the placeholder "Case <case id>"; when there is
\* none it is "Case <case id>".
C26_CaseNameFromFirstDimension ==
    (pc \in {"CACHE_WRITE", "DONE"} /\ response # <<>> /\ ~response[1].cached) =>
        LET r == response[1]
        IN  r.case_name =
                IF HasRealName(r, "WHO") THEN r.who[1].case_name
                ELSE IF HasRealName(r, "WHAT") THEN r.what[1].case_name
                ELSE IF HasRealName(r, "WHERE") THEN r.where[1].case_name
                ELSE IF HasRealName(r, "WHEN") THEN r.when[1].case_name
                ELSE IF HasRealName(r, "WHY") THEN r.why[1].case_name
                ELSE CasePlaceholder(BuildCase)

\* the caller listed WHY before WHO, both carry a real name, and the
\* composite is named after WHO
C26_Witness ==
    /\ pc = "DONE"
    /\ req.include_dimensions = <<"WHY", "WHO">>
    /\ HasRealName(response[1], "WHO")
    /\ HasRealName(response[1], "WHY")
    /\ response[1].why[1].case_name # response[1].who[1].case_name
    /\ response[1].case_name = response[1].who[1].case_name


----------------------------------------------------------------------------
(* ContextBuilder.refresh_dimension and get_dimension_quality: SpecSingle *)

\* str.upper() on the letters the dimension names are written with
UpperChar(ch) ==
    IF ch = "w" THEN "W" ELSE IF ch = "h" THEN "H" ELSE IF ch = "o" THEN "O"
    ELSE IF ch = "a" THEN "A" ELSE IF ch = "t" THEN "T" ELSE IF ch = "e" THEN "E"
    ELSE IF ch = "r" THEN "R" ELSE IF ch = "n" THEN "N" ELSE IF ch = "y" THEN "Y"
    ELSE ch

\* dimension_name.upper()
upper(name) == [i \in 1..Len(name) |-> UpperChar(name[i])]

\* the letters of a key of analyzer_map
Spell(d) ==
    IF d = "WHO" THEN <<"W", "H", "O">>
    ELSE IF d = "WHAT" THEN <<"W", "H", "A", "T">>
    ELSE IF d = "WHERE" THEN <<"W", "H", "E", "R", "E">>
    ELSE IF d = "WHEN" THEN <<"W", "H", "E", "N">>
    ELSE <<"W", "H", "Y">>

\* "dimension_name = dimension_name.upper()" and the lookup in analyzer_map
\* (valid_dimensions): <<d>> for the key found, <<>> for none
analyzer_for(name) ==
    IF \E d \in DimensionSet : Spell(d) = upper(name)
    THEN <<CHOOSE d \in DimensionSet : Spell(d) = upper(name)>>
    ELSE <<>>

\* mutation of InvokeOne: every analyzer is invoked
InvokeOne_all(d) == [x \in DimensionSet |-> Running]

\* "analyzer = analyzer_map[dimension_name]; await analyzer.analyze(...)":
\* the one analyzer that is invoked
InvokeOne(d) == [NoTasks EXCEPT ![d] = Running]

\* DimensionQualityMetrics(...): the fields completeness_score (ge=0.0,
\* le=1.0), data_points and is_sufficient; construction raises a
\* ValidationError when a constraint is not met
QualityMetrics(d, context) ==
    LET score == score_dimension(d, context)
    IN  IF score < 0 \/ score > ScoreUnit
        THEN [raised |-> "ValidationError", metrics |-> <<>>]
        ELSE [raised |-> None,
              metrics |-> <<[dimension_name |-> d,
                             completeness_score |-> Frac(score, ScoreUnit),
                             data_points |-> count_data_points(d, context),
                             is_sufficient |->
                                 FracGeq(Frac(score, ScoreUnit),
                                         COMPLETENESS_THRESHOLD)]>>]

\* refresh_dimension / get_dimension_quality is called: up to the await of
\* the analyzer
BSingleCall(op, name) ==
    /\ pc \in {"IDLE", "DONE"}
    /\ nreq < MaxRequests
    /\ nreq' = nreq + 1
    /\ req' = [op |-> op, dimension_name |-> name]
    /\ IF analyzer_for(name) = <<>>
       THEN /\ raised' = "ValueError"
            /\ task' = NoTasks
            /\ pc' = "DONE"
       ELSE /\ raised' = None
            /\ task' = InvokeOne(analyzer_for(name)[1])
            /\ pc' = "ANALYZE"
    /\ dims' = <<>>
    /\ results' = NoResults
    /\ response' = <<>>
    /\ last' = MNoOp
    /\ UNCHANGED <<cache, stats>>
    /\ BuildFrame

\* refresh_dimension: analyze() returns or raises; the result is returned
BRefreshReturn(d, outcome) ==
    /\ pc = "ANALYZE"
    /\ req.op = "refresh_dimension"
    /\ analyzer_for(req.dimension_name) = <<d>>
    /\ task' = [task EXCEPT ![d] = outcome]
    /\ IF outcome.state = "failed"
       THEN raised' = "Exception" /\ response' = <<>>
       ELSE /\ raised' = None
            /\ response' = <<[dimension |-> d, data |-> outcome.result]>>
    /\ pc' = "DONE"
    /\ UNCHANGED <<cache, stats, last, req, dims, results, nreq>>
    /\ BuildFrame

\* get_dimension_quality: analyze() returns or raises; the result is scored,
\* its data points are counted and the metrics are built
BQualityReturn(d, outcome) ==
    /\ pc = "ANALYZE"
    /\ req.op = "get_dimension_quality"
    /\ analyzer_for(req.dimension_name) = <<d>>
    /\ LET out == QualityMetrics(d, outcome.result)
       IN  /\ task' = [task EXCEPT ![d] = outcome]
           /\ IF outcome.state = "failed"
              THEN raised' = "Exception" /\ response' = <<>>
              ELSE raised' = out.raised /\ response' = out.metrics
    /\ pc' = "DONE"
    /\ UNCHANGED <<cache, stats, last, req, dims, results, nreq>>
    /\ BuildFrame

\* names the two operations are called with
SingleNames == {<<"W", "H", "O">>, <<"W", "H", "A", "T">>,
                <<"W", "H", "E", "R", "E">>, <<"W", "h", "e", "n">>,
                <<"w", "h", "y">>, <<"H", "O", "W">>, <<>>}

\* SpecSingle: build_context for one scope with the cache enabled, and the
\* two single-dimension operations
NextSingle ==
    \/ BRequest(<<"minimal">>, <<>>, TRUE)
    \/ BCheckCache
    \/ BCheckCacheRaises
    \/ BDetermineDimensions
    \/ BFanOut
    \/ \E d \in DimensionSet :
          BAnalyzerFinish(d, Succeeded(Ctx(IF d = "WHERE" THEN 3 ELSE 10, FALSE)))
    \/ BGather
    \/ BScore
    \/ BCacheWrite
    \/ BCacheWriteRaises
    \/ \E name \in SingleNames : BSingleCall("refresh_dimension", name)
    \/ \E name \in SingleNames : BSingleCall("get_dimension_quality", name)
    \/ \E d \in DimensionSet : \E o \in ScoreOutcomes(d, {d}) :
          BRefreshReturn(d, o)
    \/ \E d \in DimensionSet : \E o \in ScoreOutcomes(d, {d}) :
          BQualityReturn(d, o)

SpecSingle == InitBuild /\ [][NextSingle]_vars


\* the call in progress, or the one that returned last, is op
SingleOp(op) ==
    /\ pc \in {"ANALYZE", "DONE"}
    /\ "op" \in DOMAIN req
    /\ req.op = op

\* the analyzers that have been invoked
Invoked == {d \in DimensionSet : task[d].state # "none"}

\* C27: refresh_dimension with a legal dimension name invokes exactly that
\* dimension's analyzer once and no other, reads and writes no cache tier
\* (cache contents and statistics are unchanged) and returns the analyzer's
\* result; an unknown name is rejected with ValueError before any analyzer
\* is invoked.
C27_RefreshInvokesOneAnalyzer ==
    /\ [](SingleOp("refresh_dimension") =>
            LET name == upper(req.dimension_name)
            IN  IF \E d \in DimensionSet : Spell(d) = name
                THEN /\ \A d \in Invoked : Spell(d) = name
                     /\ Cardinality(Invoked) = 1
                     /\ pc = "ANALYZE" => \A d \in Invoked : task[d].state = "running"
                     /\ (pc = "DONE" /\ raised = None) =>
                            \A d \in Invoked :
                                /\ task[d].state = "ok"
                                /\ response = <<[dimension |-> d,
                                                 data |-> task[d].result]>>
                ELSE /\ pc = "DONE"
                     /\ raised = "ValueError"
                     /\ Invoked = {}
                     /\ response = <<>>)
    /\ [][(pc' \in {"ANALYZE", "DONE"} /\ "op" \in DOMAIN req'
           /\ req'.op = "refresh_dimension") =>
             /\ cache' = cache
             /\ stats' = stats
             /\ redis' = redis
             /\ db' = db
             /\ \A d \in DimensionSet :
                    (task'[d].state = "running" /\ pc = "ANALYZE") =>
                        task[d].state = "running"]_vars

\* a refresh given a lower-case name has returned its analyzer's result
\* while the cache held a composite
C27_Witness ==
    /\ SingleOp("refresh_dimension")
    /\ pc = "DONE"
    /\ req.dimension_name = <<"w", "h", "y">>
    /\ response # <<>>
    /\ response[1].dimension = "WHY"
    /\ Len(cache) = 1
    /\ stats.total_sets = 1

\* C28: get_dimension_quality, for every legal dimension name and every
\* result its analyzer can return, returns metrics (it does not fail) whose
\* completeness score lies in [0,1], whose data-point count is non-negative
\* and whose sufficiency flag is true exactly when the completeness score
\* is at least 0.85.
C28_QualityMetricsWellFormed ==
    (/\ SingleOp("get_dimension_quality")
     /\ pc = "DONE"
     /\ \E d \in Invoked : task[d].state = "ok") =>
        /\ raised = None
        /\ response # <<>>
        /\ LET m == response[1]
           IN  /\ FracGeq(m.completeness_score, Frac(0, 1))
               /\ FracGeq(Frac(1, 1), m.completeness_score)
               /\ m.data_points >= 0
               /\ m.is_sufficient
                    <=> FracGeq(m.completeness_score, COMPLETENESS_THRESHOLD)


----------------------------------------------------------------------------
(* ContextBuilder._build_dimensions_parallel with the order in which the
   analyzers finish: SpecGather *)

\* "tasks": its keys in the order the method fills it, one
\* "if 'X' in dimensions" after the other
TaskKeys(dimensions) ==
    SelectSeq(Dimensions, LAMBDA d : d \in Range(dimensions))

\* mutation of Gather: the outcomes in the order the tasks finished
Gather_as_completed(keys, tasks, order) ==
    [i \in 1..Len(keys) |-> tasks[order[i]]]

\* "await asyncio.gather(*tasks.values(), return_exceptions=True)": the
\* outcomes, exceptions included, in the order of the arguments
Gather(keys, tasks, order) ==
    [i \in 1..Len(keys) |-> tasks[keys[i]]]

\* "for dimension_name, result in zip(tasks.keys(), completed_tasks)":
\* results[dimension_name] is None for an exception, the result otherwise
ZipResults(keys, completed) ==
    [d \in Range(keys) |->
        MapResult(completed[CHOOSE i \in 1..Len(keys) : keys[i] = d])]

\* a result that tells which analyzer returned it
GatherContext(d) ==
    Ctx(CHOOSE i \in 1..Len(Dimensions) : Dimensions[i] = d, FALSE)

GatherOutcomes(d) == {Failed, Succeeded(GatherContext(d))}

GatherIncludes == {<<>>, <<"WHEN", "WHO">>, <<"WHY", "WHERE", "WHAT">>,
                   <<"WHY", "WHEN", "WHERE", "WHAT", "WHO">>}

\* build_context has selected the dimensions
InitGather ==
    /\ BuilderCacheManager
    /\ pc = "FAN_OUT"
    /\ \E sc \in AllScopes, inc \in GatherIncludes :
          /\ req = [scope |-> sc, include_dimensions |-> inc,
                    use_cache |-> FALSE]
          /\ dims = determine_dimensions(sc, inc).dims
    /\ task = NoTasks
    /\ results = NoResults
    /\ response = <<>>
    /\ raised = None
    /\ nreq = 1
    /\ finish_order = <<>>
    /\ completed_tasks = <<>>
    /\ coros = <<>>

GatherFrame == UNCHANGED <<cache, stats, last, max_size, default_ttl, now,
                           touched, gen, enable_memory_cache,
                           enable_redis_cache, enable_db_cache, tier_backend,
                           redis, db, req, dims, response, raised, nreq,
                           coros>>

\* an analyzer finishes while gather waits
GAnalyzerFinish(d, outcome) ==
    /\ pc = "COLLECT"
    /\ task[d].state = "running"
    /\ task' = [task EXCEPT ![d] = outcome]
    /\ finish_order' = Append(finish_order, d)
    /\ UNCHANGED <<pc, results, completed_tasks>>
    /\ GatherFrame

\* gather returns and the outcomes are mapped back to the dimension names
GGather ==
    /\ pc = "COLLECT"
    /\ GatherReady(task, Range(dims))
    /\ completed_tasks' = Gather(TaskKeys(dims), task, finish_order)
    /\ results' = ZipResults(TaskKeys(dims), completed_tasks')
    /\ pc' = "SCORE"
    /\ UNCHANGED <<task, finish_order>>
    /\ GatherFrame

NextGather ==
    \/ BFanOut
    \/ \E d \in DimensionSet : \E o \in GatherOutcomes(d) : GAnalyzerFinish(d, o)
    \/ GGather
    \/ BScore

SpecGather == InitGather /\ [][NextGather]_vars

\* C29: whatever order the analyzers finish in, each outcome is recorded
\* under its own dimension name (the result of that dimension's analyzer,
\* None for its exception), and the outcomes are collected in the order in
\* which the fan-out was issued: WHO, WHAT, WHERE, WHEN, WHY, restricted to
\* the selected dimensions.
C29_OutcomesUnderOwnName ==
    pc \in {"SCORE", "CACHE_WRITE", "DONE"} =>
        /\ Range(finish_order) = Range(dims)
        /\ Len(completed_tasks) = Len(TaskKeys(dims))
        /\ \A i \in 1..Len(completed_tasks) :
              /\ completed_tasks[i] = task[TaskKeys(dims)[i]]
              /\ \A j \in 1..Len(completed_tasks) :
                    i < j => \E a, b \in 1..Len(Dimensions) :
                        /\ a < b
                        /\ Dimensions[a] = TaskKeys(dims)[i]
                        /\ Dimensions[b] = TaskKeys(dims)[j]
        /\ DOMAIN results = Range(dims)
        /\ \A d \in Range(dims) :
              /\ task[d].state = "failed" => results[d] = NoCtx
              /\ task[d].state = "ok" => results[d] = <<GatherContext(d)>>

\* five analyzers finished in the reverse of the order they were issued in,
\* one of them by an exception
C29_Witness ==
    /\ pc = "SCORE"
    /\ finish_order = <<"WHY", "WHEN", "WHERE", "WHAT", "WHO">>
    /\ req.include_dimensions = <<>>
    /\ task["WHAT"].state = "failed"
    /\ \A d \in DimensionSet \ {"WHAT"} : task[d].state = "ok"
    /\ results["WHO"] = <<GatherContext("WHO")>>


----------------------------------------------------------------------------
(* Concurrent CacheManager calls on one event loop: SpecCoop.  A coroutine
   runs from one await to the next without interruption; the awaits of
   get, set and delete are the optional tiers' I/O methods, and the
   LRUCache methods are plain functions. *)

\* the coroutines sharing the CacheManager
Coroutines == {1, 2}

\* CacheManager calls per coroutine in one behaviour
MaxCalls == 2

\* a coroutine between two calls, after `calls` calls
CIdle(calls) == [pc |-> "idle", keys |-> <<>>, value |-> None,
                 status |-> None, n |-> 0, calls |-> calls]

\* the value the coroutine p stores
CoValue(p) == IF p = 1 THEN "v1" ELSE "v2"

\* cache_key of the call: the key the suspended call works on
CoKey(c) == Head(c.keys)

\* the first optional-tier await of a call, "none" when no tier is enabled
FirstAwait(op) ==
    IF enable_redis_cache THEN op \o "_redis"
    ELSE IF enable_db_cache THEN op \o "_db" ELSE "none"

Bump(s, counter, by) == [s EXCEPT ![counter] = @ + by]

\* mutation of FastTierSet: the state between "self.cache[key] = entry" and
\* the eviction, as another coroutine would see it if set yielded there
FastTierSet_yield(c, key, value, status, t, max, dflt) ==
    move_to_end(SetItem(c, key, CacheEntry(key, value, t, MEMORY_TTL, status)), key)

\* "if self.enable_memory_cache and self.memory_cache:
\*      self.memory_cache.set(cache_key, value, ttl=self.MEMORY_TTL, ...)":
\* one call of a plain function, no await inside
FastTierSet(c, key, value, status, t, max, dflt) ==
    IF enable_memory_cache
    THEN LRUSetCache(c, key, value, <<MEMORY_TTL>>, status, t, max, dflt)
    ELSE c

InitCoop ==
    /\ enable_memory_cache = TRUE
    /\ enable_redis_cache \in BOOLEAN
    /\ enable_db_cache \in BOOLEAN
    /\ tier_backend = "store"
    /\ cache = <<>>
    /\ max_size \in 1..MaxSize
    /\ default_ttl = MEMORY_TTL
    /\ redis = {}
    /\ db = {}
    /\ stats = ZeroStats
    /\ now = 0
    /\ last = MNoOp
    /\ touched = <<>>
    /\ gen = <<>>
    /\ pc = "IDLE"
    /\ req = <<>>
    /\ dims = <<>>
    /\ task = <<>>
    /\ results = <<>>
    /\ response = <<>>
    /\ raised = None
    /\ nreq = 0
    /\ finish_order = <<>>
    /\ completed_tasks = <<>>
    /\ coros = [p \in Coroutines |-> CIdle(0)]

CoopFrame == UNCHANGED <<max_size, default_ttl, last, touched, gen,
                         enable_memory_cache, enable_redis_cache,
                         enable_db_cache, tier_backend, pc, req, dims, task,
                         results, response, raised, nreq, finish_order,
                         completed_tasks>>

\* the call of coroutine p returns
Return(p) == [coros EXCEPT ![p] = CIdle(@.calls + 1)]

\* coroutine p is suspended at the await `at`
Suspend(p, at, keys, value, status, n) ==
    [coros EXCEPT ![p] = [pc |-> at, keys |-> keys, value |-> value,
                          status |-> status, n |-> n, calls |-> @.calls]]

CanCall(p) == coros[p].pc = "idle" /\ coros[p].calls < MaxCalls

\* get: from the call to its return or its first await
CGet(p, scope) ==
    LET key == CacheKey(<<"t1">>, <<"c1">>, scope, NoStr)
        hit == LRUGetHit(cache, key, now)
        at == FirstAwait("get")
    IN  /\ CanCall(p)
        /\ Contains(cache, key) => EntryOf(cache, key).hit_count < MaxHits
        /\ cache' = LRUGetCache(cache, key, now)
        /\ stats' = Bump(stats, IF hit THEN "memory_hits" ELSE "memory_misses", 1)
        /\ coros' = IF hit \/ at = "none" THEN Return(p)
                    ELSE Suspend(p, at, <<key>>, None, None, 0)
        /\ UNCHANGED <<redis, db, now>>
        /\ CoopFrame

\* get: _get_from_redis has answered
CGetRedis(p) ==
    LET c == coros[p]
        value == get_from_redis(tier_backend, redis, CoKey(c), now)
    IN  /\ c.pc = "get_redis"
        /\ IF value # None
           THEN /\ stats' = Bump(stats, "redis_hits", 1)
                /\ cache' = PromoteToMemory(enable_memory_cache, cache, CoKey(c),
                                            value, now, max_size, default_ttl)
                /\ coros' = Return(p)
           ELSE /\ stats' = Bump(stats, "redis_misses", 1)
                /\ cache' = cache
                /\ coros' = IF enable_db_cache
                            THEN Suspend(p, "get_db", c.keys, None, None, 0)
                            ELSE Return(p)
        /\ UNCHANGED <<redis, db, now>>
        /\ CoopFrame

\* get: _get_from_database has answered
CGetDb(p) ==
    LET c == coros[p]
        value == get_from_database(tier_backend, db, CoKey(c), now)
    IN  /\ c.pc = "get_db"
        /\ IF value = None
           THEN /\ stats' = Bump(stats, "db_misses", 1)
                /\ cache' = cache
                /\ coros' = Return(p)
           ELSE /\ stats' = Bump(stats, "db_hits", 1)
                /\ IF enable_redis_cache
                   THEN /\ cache' = cache
                        /\ coros' = Suspend(p, "get_promote", c.keys, value,
                                            None, 0)
                   ELSE /\ cache' = PromoteToMemory(enable_memory_cache, cache,
                                                    CoKey(c), value, now,
                                                    max_size, default_ttl)
                        /\ coros' = Return(p)
        /\ UNCHANGED <<redis, db, now>>
        /\ CoopFrame

\* get: the _set_in_redis of "Populate faster tiers" has returned
CGetPromote(p) ==
    LET c == coros[p]
    IN  /\ c.pc = "get_promote"
        /\ redis' = PromoteToRedis(enable_redis_cache, tier_backend, redis,
                                   CoKey(c), c.value, now)
        /\ cache' = PromoteToMemory(enable_memory_cache, cache, CoKey(c),
                                    c.value, now, max_size, default_ttl)
        /\ coros' = Return(p)
        /\ UNCHANGED <<db, stats, now>>
        /\ CoopFrame

\* set: from the call to its return or its first await
CSet(p, scope, status) ==
    LET key == CacheKey(<<"t1">>, <<"c1">>, scope, NoStr)
        at == FirstAwait("set")
    IN  /\ CanCall(p)
        /\ cache' = FastTierSet(cache, key, CoValue(p), status, now, max_size,
                                default_ttl)
        /\ IF at = "none"
           THEN stats' = Bump(stats, "total_sets", 1) /\ coros' = Return(p)
           ELSE /\ stats' = stats
                /\ coros' = Suspend(p, at, <<key>>, CoValue(p), status, 0)
        /\ UNCHANGED <<redis, db, now>>
        /\ CoopFrame

\* set: _set_in_redis has returned
CSetRedis(p) ==
    LET c == coros[p]
    IN  /\ c.pc = "set_redis"
        /\ redis' = set_in_redis(tier_backend, redis, CoKey(c), c.value,
                                 RedisDbTtl(c.status), now)
        /\ IF enable_db_cache
           THEN /\ stats' = stats
                /\ coros' = Suspend(p, "set_db", c.keys, c.value, c.status, 0)
           ELSE stats' = Bump(stats, "total_sets", 1) /\ coros' = Return(p)
        /\ UNCHANGED <<cache, db, now>>
        /\ CoopFrame

\* set: _set_in_database has returned
CSetDb(p) ==
    LET c == coros[p]
    IN  /\ c.pc = "set_db"
        /\ db' = set_in_database(tier_backend, db, CoKey(c), c.value,
                                 <<"c1">>, c.status, now)
        /\ stats' = Bump(stats, "total_sets", 1)
        /\ coros' = Return(p)
        /\ UNCHANGED <<cache, redis, now>>
        /\ CoopFrame

\* the keys delete walks, in the order of its loop
DeleteKeySeq(scope) ==
    IF Truthy(scope)
    THEN <<CacheKey(<<"t1">>, <<"c1">>, scope[1], NoStr)>>
    ELSE [i \in 1..3 |->
            CacheKey(<<"t1">>, <<"c1">>,
                     <<<<"minimal">>, <<"standard">>, <<"comprehensive">>>>[i],
                     NoStr)]

\* delete: from the call to its return or its first await
CDelete(p, scope) ==
    LET keys == DeleteKeySeq(scope)
        at == FirstAwait("delete")
        all == DeleteKeys(Range(keys), cache, redis, db, 0)
        found == enable_memory_cache /\ LRUDeleteResult(cache, Head(keys))
    IN  /\ CanCall(p)
        /\ IF at = "none"
           THEN /\ cache' = all.cache
                /\ stats' = Bump(stats, "total_deletes", all.n)
                /\ coros' = Return(p)
           ELSE /\ cache' = IF enable_memory_cache
                            THEN LRUDeleteCache(cache, Head(keys)) ELSE cache
                /\ stats' = stats
                /\ coros' = Suspend(p, at, keys, None, None,
                                    IF found THEN 1 ELSE 0)
        /\ UNCHANGED <<redis, db, now>>
        /\ CoopFrame

\* delete, the optional tiers of one key done: the next key's memory delete
\* and await, or the return
DeleteNextKey(p, n) ==
    LET rest == Tail(coros[p].keys)
        found == enable_memory_cache /\ LRUDeleteResult(cache, Head(rest))
    IN  IF rest = <<>>
        THEN /\ cache' = cache
             /\ stats' = Bump(stats, "total_deletes", n)
             /\ coros' = Return(p)
        ELSE /\ cache' = IF enable_memory_cache
                         THEN LRUDeleteCache(cache, Head(rest)) ELSE cache
             /\ stats' = stats
             /\ coros' = Suspend(p, FirstAwait("delete"), rest, None, None,
                                 n + (IF found THEN 1 ELSE 0))

\* delete: _delete_from_redis has answered
CDeleteRedis(p) ==
    LET c == coros[p]
        n == c.n + (IF delete_from_redis(tier_backend, redis, CoKey(c), now)
                    THEN 1 ELSE 0)
    IN  /\ c.pc = "delete_redis"
        /\ redis' = redis_without(tier_backend, redis, CoKey(c))
        /\ IF enable_db_cache
           THEN /\ coros' = Suspend(p, "delete_db", c.keys, None, None, n)
                /\ UNCHANGED <<cache, stats>>
           ELSE DeleteNextKey(p, n)
        /\ UNCHANGED <<db, now>>
        /\ CoopFrame

\* delete: _delete_from_database has answered
CDeleteDb(p) ==
    LET c == coros[p]
        n == c.n + (IF delete_from_database(tier_backend, db, CoKey(c), now)
                    THEN 1 ELSE 0)
    IN  /\ c.pc = "delete_db"
        /\ db' = database_without(tier_backend, db, CoKey(c))
        /\ DeleteNextKey(p, n)
        /\ UNCHANGED <<redis, now>>
        /\ CoopFrame

\* time passes: one memory-tier lifetime
CTick ==
    /\ now < MaxTime * MEMORY_TTL
    /\ now' = now + MEMORY_TTL
    /\ UNCHANGED <<cache, redis, db, stats, coros>>
    /\ CoopFrame

NextCoop ==
    \/ \E p \in Coroutines, sc \in AllScopes : CGet(p, sc)
    \/ \E p \in Coroutines : CGetRedis(p)
    \/ \E p \in Coroutines : CGetDb(p)
    \/ \E p \in Coroutines : CGetPromote(p)
    \/ \E p \in Coroutines, sc \in AllScopes : CSet(p, sc, "active")
    \/ \E p \in Coroutines : CSetRedis(p)
    \/ \E p \in Coroutines : CSetDb(p)
    \/ \E p \in Coroutines, sc \in {NoStr, Some(<<"minimal">>)} : CDelete(p, sc)
    \/ \E p \in Coroutines : CDeleteRedis(p)
    \/ \E p \in Coroutines : CDeleteDb(p)
    \/ CTick

SpecCoop == InitCoop /\ [][NextCoop]_vars


\* C30: under any interleaving of concurrent calls on one event loop, where
\* control changes hands only at the awaits of optional-tier I/O, the fast
\* tier holds at most max_size entries in every reachable state and its
\* recency order contains each stored key exactly once.
C30_FastTierAtomicUnderInterleaving ==
    /\ Len(cache) <= max_size
    /\ \A i, j \in 1..Len(cache) : cache[i].key = cache[j].key => i = j
    /\ Cardinality(KeysOf(cache)) = Len(cache)

\* while coroutine 1 is suspended in a set, at the redis write, coroutine 2,
\* itself suspended at the database write of its second set, has filled the
\* fast tier and evicted the entry coroutine 1 stored
C30_Witness ==
    /\ max_size = 2
    /\ Len(cache) = max_size
    /\ coros[1].pc = "set_redis"
    /\ coros[2].pc = "set_db"
    /\ coros[2].calls = 1
    /\ ~Contains(cache, CoKey(coros[1]))
    /\ \A i \in 1..Len(cache) : cache[i].value = CoValue(2)


----------------------------------------------------------------------------
(* Further claims about LRUCache, checked under Spec *)

\* the entries of c other than the one of key k, in their order
Others(c, k) == DelKey(c, k)

\* what a get that found a valid entry does: the stored value is returned,
\* the entry's hit counter goes up by one, the entry is last in the order,
\* and the other entries keep their contents and relative order
GetHitEffect ==
    LET k == last'.key
        e == EntryOf(cache, k)
    IN  /\ last'.value = e.value
        /\ Len(cache') = Len(cache)
        /\ cache'[Len(cache')] = [e EXCEPT !.hit_count = e.hit_count + 1]
        /\ Others(cache', k) = Others(cache, k)

\* C31 as stated: a get that finds a present, unexpired entry returns its
\* value, increments its hit counter by exactly one and makes it the
\* most-recently-used entry, leaving the other entries' relative order
\* unchanged; a get that misses changes no entry.
C31_GetHitMovesMissChangesNothing ==
    [][last'.op = "get" =>
        IF LRUGetHit(cache, last'.key, now)
        THEN last'.ok /\ GetHitEffect
        ELSE ~last'.ok /\ last'.value = None /\ cache' = cache]_vars

\* C31 amended: as above for a hit; a get of a key that is not stored
\* changes no entry, and a get of a key whose entry has expired removes
\* that entry and leaves the other entries and their order unchanged.
C31_GetHitMovesMissRemovesExpired ==
    [][last'.op = "get" =>
        IF LRUGetHit(cache, last'.key, now)
        THEN last'.ok /\ GetHitEffect
        ELSE /\ ~last'.ok
             /\ last'.value = None
             /\ ~Contains(cache', last'.key)
             /\ cache' = Others(cache, last'.key)
             /\ ~Contains(cache, last'.key) => cache' = cache]_vars

\* a get of the older of two entries returned its value: the entry is now
\* last with one hit, the other entry precedes it
C31_Witness ==
    /\ last.op = "get" /\ last.ok
    /\ Len(cache) = 2
    /\ cache[2].key = last.key
    /\ cache[2].hit_count = 1
    /\ cache[2].value = last.value
    /\ touched = <<cache[1].key, cache[2].key>>
    /\ cache[1].hit_count = 0


RECURSIVE SumHits(_)
\* sum(entry.hit_count for entry in self.cache.values())
SumHits(c) == IF c = <<>> THEN 0 ELSE Head(c).hit_count + SumHits(Tail(c))

\* sum(1 for entry in self.cache.values() if entry.is_expired())
ExpiredCount(c, t) == Len(SelectSeq(c, LAMBDA e : is_expired(e, t)))

\* LRUCache.get_stats
LRUGetStats(c, max, dflt, t) ==
    [size |-> Len(c),
     max_size |-> max,
     utilization |-> IF max > 0 THEN Frac(Len(c), max) ELSE Frac(0, 1),
     total_hits |-> SumHits(c),
     expired_entries |-> ExpiredCount(c, t),
     default_ttl_seconds |-> dflt]

\* LRUCache.set: the entry deleted as "oldest_key", <<>> when the size
\* stays within max_size
LRUSetEvictedEntry(c, k, v, ttl, case_status, t, max, dflt) ==
    LET entry == CacheEntry(k, v, t, EffectiveTtl(ttl, dflt), case_status)
        filled == move_to_end(SetItem(c, k, entry), k)
    IN  IF Len(filled) > max THEN <<Head(filled)>> ELSE <<>>

\* LRUCache.set; `last` keeps the value stored, whether the entry evicted had
\* expired, and the hit counter of the entry replaced
SetE(k, v, ttl) ==
    /\ cache' = LRUSetCache(cache, k, v, ttl, "active", now, max_size, default_ttl)
    /\ last' = [op |-> "set", key |-> k, value |-> v,
                ok |-> ~Contains(cache, k),
                n |-> Cardinality(KeysOf(cache) \cup {k}) - Len(cache'),
                evicted |-> LRUSetEvicted(cache, k, max_size),
                evicted_expired |->
                    LET old == LRUSetEvictedEntry(cache, k, v, ttl, "active", now,
                                                  max_size, default_ttl)
                    IN  IF old = <<>> THEN <<>> ELSE <<is_expired(old[1], now)>>,
                replaced_hits |-> IF Contains(cache, k)
                                  THEN <<EntryOf(cache, k).hit_count>> ELSE <<>>]
    /\ touched' = Touch(touched, k, KeysOf(cache'))
    /\ UNCHANGED <<max_size, default_ttl, now, keyVars, mgrVars, buildVars>>

NextEvict ==
    \/ \E k \in LRUKeys : Get(k)
    \/ \E k \in LRUKeys, v \in Values, ttl \in TtlArgs : SetE(k, v, ttl)
    \/ \E k \in LRUKeys : Delete(k)
    \/ Clear
    \/ Tick

SpecEvict == Init /\ [][NextEvict]_vars

\* C39: an overflow eviction in LRUCache.set removes the entry at the
\* least-recently-used position whether or not it has expired: the size
\* that is compared with max_size counts the expired entries that were not
\* purged (a set of a new key evicts exactly when the stored entries,
\* expired ones included, number max_size), the entry removed is the first
\* of the order, and every other entry, expired or not, stays.
C39_EvictionIgnoresExpiry ==
    [][last'.op = "set" =>
        LET k == last'.key
            st == LRUGetStats(cache, max_size, default_ttl, now)
            overflow == ~Contains(cache, k) /\ st.size + 1 > max_size
        IN  /\ last'.n = (IF overflow THEN 1 ELSE 0)
            /\ last'.evicted # None <=> overflow
            /\ last'.evicted_expired # <<>> <=> overflow
            /\ (overflow /\ cache # <<>>) =>
                  /\ last'.evicted = Head(cache).key
                  /\ last'.evicted_expired = <<is_expired(Head(cache), now)>>
                  /\ Others(cache', k) = Tail(cache)
                  /\ LRUGetStats(cache', max_size, default_ttl, now).expired_entries
                        = st.expired_entries
                            - (IF is_expired(Head(cache), now) THEN 1 ELSE 0)
            /\ (overflow /\ cache = <<>>) => last'.evicted = k /\ cache' = <<>>]_vars

\* a set on a full cache evicted an entry that had not expired while an
\* expired entry stays stored
C39_Witness ==
    /\ last.op = "set" /\ last.evicted_expired = <<FALSE>>
    /\ max_size = 2 /\ Len(cache) = 2
    /\ LRUGetStats(cache, max_size, default_ttl, now).expired_entries = 1
    /\ is_expired(cache[1], now)


\* C40: LRUCache.set on a key that is already stored replaces its value and
\* expiry, resets its hit counter to zero, makes it the most-recently-used
\* entry, leaves the size unchanged and evicts no entry; hence an entry's
\* hit counter always equals the number of successful gets of that key
\* since its most recent set: an entry enters the cache only by a set, with
\* counter zero; a get that returns its value adds exactly one; no other
\* operation changes the counter of an entry that stays stored.
C40_OverwriteResetsHitCount ==
    [][/\ (last'.op = "set" /\ Contains(cache, last'.key)) =>
            LET k == last'.key
                new == cache'[Len(cache')]
            IN  /\ Len(cache') = Len(cache)
                /\ last'.evicted = None /\ last'.n = 0
                /\ new.key = k
                /\ new.value = last'.value
                /\ new.hit_count = 0
                /\ new.expires_at > now
                /\ new.expires_at - now \in {1, default_ttl}
                /\ Others(cache', k) = Others(cache, k)
       /\ \A i \in 1..Len(cache') :
            LET e == cache'[i]
            IN  IF last'.op = "set" /\ last'.key = e.key
                THEN e.hit_count = 0
                ELSE /\ Contains(cache, e.key)
                     /\ e.hit_count = EntryOf(cache, e.key).hit_count
                            + (IF last'.op = "get" /\ last'.key = e.key
                               THEN 1 ELSE 0)
                     /\ (last'.op = "get" /\ last'.key = e.key) => last'.ok]_vars

\* a set overwrote, in a full cache, an entry that had been read once: new
\* value, counter back at zero, the entry last, nothing evicted
C40_Witness ==
    /\ last.op = "set" /\ last.replaced_hits = <<1>>
    /\ last.evicted = None
    /\ max_size = 2 /\ Len(cache) = 2
    /\ cache[2].key = last.key
    /\ cache[2].hit_count = 0
    /\ cache[2].value = last.value
    /\ now > 0


----------------------------------------------------------------------------
(* The API routes that call build_context: retrieve_context, warmup_cache
   and refresh_context, one request after the other: SpecRoutes *)

\* requests in one behaviour of SpecRoutes
MaxRouteRequests == 3

\* no request came before
NoPrev == [route |-> "none", scope |-> <<>>, complete |-> FALSE,
           wrote |-> FALSE, failed |-> FALSE]

\* history: the request that has just ended (its route and scope, whether
\* the composite it returned is complete, whether it wrote the cache,
\* whether it raised)
PrevRequest ==
    IF pc = "IDLE" THEN NoPrev
    ELSE [route |-> req.route, scope |-> req.scope,
          complete |-> response # <<>> /\ response[1].is_complete,
          wrote |-> last.op = "set",
          failed |-> raised # None]

\* a route handler calls builder.build_context(client_id, case_id, scope,
\* include_dimensions, use_cache)
RouteCall(route, scope, include_dimensions, use_cache) ==
    /\ pc \in {"IDLE", "DONE"}
    /\ nreq < MaxRouteRequests
    /\ nreq' = nreq + 1
    /\ req' = [scope |-> scope, include_dimensions |-> include_dimensions,
               use_cache |-> use_cache, route |-> route, prev |-> PrevRequest]
    /\ pc' = AfterEntry(use_cache)
    /\ dims' = <<>>
    /\ task' = NoTasks
    /\ results' = NoResults
    /\ response' = <<>>
    /\ raised' = None
    /\ last' = MNoOp
    /\ UNCHANGED <<cache, stats>>
    /\ BuildFrame

\* retrieve_context: the request's own use_cache
RRetrieve(scope, use_cache) == RouteCall("retrieve", scope, <<>>, use_cache)

\* warmup_cache: "use_cache=False  # Force rebuild to ensure fresh cache"
WarmupUseCache == FALSE

\* warmup_cache, one case of case_ids
RWarmup(scope) == RouteCall("warmup", scope, <<>>, WarmupUseCache)

\* refresh_context: ContextRetrievalRequest(..., use_cache=False) handed to
\* retrieve_context
RRefresh(scope) == RouteCall("refresh", scope, <<>>, FALSE)

RouteScopes == {<<"minimal">>}

\* analyzer results of the routes' builds: WHO with 7 or 10 data points
\* (both composites of scope minimal are complete), or a failure
RouteOutcomes(d) ==
    IF d = "WHO" THEN {Failed, Succeeded(Ctx(7, FALSE)), Succeeded(Ctx(10, FALSE))}
    ELSE {Succeeded(Ctx(IF d = "WHERE" THEN 3 ELSE 10, FALSE))}

NextRoutes ==
    \/ \E sc \in RouteScopes, uc \in BOOLEAN : RRetrieve(sc, uc)
    \/ \E sc \in RouteScopes : RWarmup(sc)
    \/ \E sc \in RouteScopes : RRefresh(sc)
    \/ BCheckCache
    \/ BDetermineDimensions
    \/ BFanOut
    \/ \E d \in DimensionSet : \E o \in RouteOutcomes(d) : BAnalyzerFinish(d, o)
    \/ BGather
    \/ BScore
    \/ BCacheWrite

SpecRoutes == InitBuild /\ [][NextRoutes]_vars

\* a cache-enabled retrieval has returned, the request before it having
\* been `route` for the same scope, ended without error
RetrievedAfter(route) ==
    /\ pc = "DONE"
    /\ "route" \in DOMAIN req
    /\ req.route = "retrieve"
    /\ req.use_cache
    /\ req.prev.route = route
    /\ req.prev.scope = req.scope
    /\ ~req.prev.failed

\* C32: after cache warmup has built a complete context for a case, that
\* context is stored in the cache, so the next cache-enabled build_context
\* for the same tenant, case and scope is served from the cache.
C32_WarmupFillsCache ==
    /\ (/\ pc = "DONE"
        /\ "route" \in DOMAIN req
        /\ req.route = "warmup"
        /\ response # <<>>
        /\ response[1].is_complete)
       => /\ Contains(cache, BuildKey)
          /\ EntryOf(cache, BuildKey).value = response[1]
    /\ (RetrievedAfter("warmup") /\ req.prev.complete)
       => response # <<>> /\ response[1].cached

\* C33: after the context refresh for (tenant, case, scope) has completed,
\* a later cache-enabled retrieval for the same tenant, case and scope does
\* not return a composite that was cached before the refresh: what it is
\* served from the cache was written by the refresh.
C33_RefreshReplacesCachedComposite ==
    (RetrievedAfter("refresh") /\ response # <<>> /\ response[1].cached)
        => req.prev.wrote


----------------------------------------------------------------------------
(* GraphRAGClient._make_request: SpecRetry *)

\* largest max_retries a client is constructed with
MaxRetries == 3

\* retry_delay of the client, in seconds
RetryDelays == {1, 2}

HttpMethods == {"GET", "POST", "DELETE", "PUT"}

\* how one HTTP call ends: a response without error status, a response
\* with an error status (raise_for_status), httpx.TimeoutException,
\* httpx.ConnectError, any other exception
AttemptOutcomes == {"ok", "HTTPStatusError", "TimeoutException",
                    "ConnectError", "OtherError"}

\* "except (httpx.TimeoutException, httpx.ConnectError) as e"
Retryable(outcome) == outcome \in {"TimeoutException", "ConnectError"}

\* mutation of ShouldRetry: one more retry is granted
ShouldRetry_le(retry_count, max_retries) == retry_count <= max_retries

\* "if retry_count < self.max_retries:"
ShouldRetry(retry_count, max_retries) == retry_count < max_retries

\* "delay = self.retry_delay * (2 ** retry_count)"
Backoff(retry_delay, retry_count) == retry_delay * (2 ^ retry_count)

\* the client is constructed and _make_request is called (retry_count=0)
InitRetry ==
    /\ BuilderCacheManager
    /\ pc = "IDLE"
    /\ req = <<>>
    /\ dims = <<>>
    /\ task = <<>>
    /\ results = <<>>
    /\ response = <<>>
    /\ raised = None
    /\ nreq = 0
    /\ finish_order = <<>>
    /\ completed_tasks = <<>>
    /\ \E m \in 0..MaxRetries, rd \in RetryDelays, method \in HttpMethods :
          coros = <<[pc |-> "call", method |-> method, max_retries |-> m,
                     retry_delay |-> rd, retry_count |-> 0, attempts |-> 0,
                     slept |-> <<>>, failed |-> <<>>, raised |-> None]>>

RetryFrame == UNCHANGED <<cache, max_size, default_ttl, now, last, touched, gen,
                          enable_memory_cache, enable_redis_cache,
                          enable_db_cache, tier_backend, redis, db, stats,
                          pc, req, dims, task, results, response, raised, nreq,
                          finish_order, completed_tasks>>

\* _make_request with a method that is none of GET, POST, DELETE:
\* ValueError, which neither except clause catches
GUnsupported ==
    LET c == coros[1]
    IN  /\ c.pc = "call"
        /\ c.method \notin {"GET", "POST", "DELETE"}
        /\ coros' = <<[c EXCEPT !.pc = "raised", !.raised = "ValueError"]>>
        /\ RetryFrame

\* one HTTP call and what follows it up to the next await or the end
GAttempt(outcome) ==
    LET c == coros[1]
        tried == [c EXCEPT !.attempts = @ + 1]
    IN  /\ c.pc = "call"
        /\ c.method \in {"GET", "POST", "DELETE"}
        /\ coros' =
             IF outcome = "ok" THEN <<[tried EXCEPT !.pc = "returned"]>>
             ELSE IF Retryable(outcome)
                     /\ ShouldRetry(c.retry_count, c.max_retries)
             THEN <<[tried EXCEPT
                        !.pc = "sleep",
                        !.failed = Append(@, outcome),
                        !.slept = Append(@, Backoff(c.retry_delay,
                                                    c.retry_count))]>>
             ELSE <<[tried EXCEPT !.pc = "raised",
                                 !.failed = Append(@, outcome),
                                 !.raised = outcome]>>
        /\ RetryFrame

\* asyncio.sleep(delay) is over:
\* "return await self._make_request(..., retry_count + 1)"
GRetry ==
    LET c == coros[1]
    IN  /\ c.pc = "sleep"
        /\ coros' = <<[c EXCEPT !.pc = "call", !.retry_count = @ + 1]>>
        /\ RetryFrame

NextRetry ==
    \/ GUnsupported
    \/ \E o \in AttemptOutcomes : GAttempt(o)
    \/ GRetry

\* every HTTP call ends (the client is built with a timeout) and every
\* sleep ends
SpecRetry == InitRetry /\ [][NextRetry]_vars /\ WF_vars(NextRetry)

RequestDone == coros[1].pc \in {"returned", "raised"}

\* C34: a graph-client request that keeps failing with timeout or
\* connection errors is attempted at most max_retries + 1 times, waits
\* retry_delay * 2^k before the retry that follows the k-th failed attempt
\* (k from 0), and then raises the last error; a request that fails with an
\* HTTP error status is not retried; the request procedure always
\* terminates.
C34_BoundedRetryWithBackoff ==
    /\ [](LET c == coros[1]
          IN  /\ c.attempts <= c.max_retries + 1
              /\ \A k \in 1..Len(c.slept) :
                    /\ c.slept[k] = c.retry_delay * (2 ^ (k - 1))
                    /\ Retryable(c.failed[k])
              /\ Len(c.slept) = c.retry_count + (IF c.pc = "sleep" THEN 1 ELSE 0)
              /\ (c.pc = "raised" /\ Retryable(c.raised)) =>
                    /\ c.attempts = c.max_retries + 1
                    /\ Len(c.slept) = c.max_retries
                    /\ c.raised = c.failed[Len(c.failed)]
              /\ \A k \in 1..Len(c.failed) :
                    c.failed[k] = "HTTPStatusError" =>
                        /\ k = Len(c.failed)
                        /\ c.pc = "raised"
                        /\ c.raised = "HTTPStatusError"
                        /\ c.attempts = k)
    /\ <>RequestDone

\* a request failed four times with max_retries 3, slept 1, 2 and 4 seconds
\* in between and raised the last error
C34_Witness ==
    /\ coros[1].pc = "raised"
    /\ coros[1].max_retries = 3
    /\ coros[1].attempts = 4
    /\ coros[1].slept = <<1, 2, 4>>
    /\ coros[1].failed = <<"TimeoutException", "ConnectError",
                           "TimeoutException", "ConnectError">>
    /\ coros[1].raised = "ConnectError"


----------------------------------------------------------------------------
(* the dimensions of a returned composite against the request's selection *)

\* the dimensions selected for the request in progress: the explicit list
\* when one is given, otherwise the scope's set
SelectedDimensions ==
    IF req.include_dimensions # <<>> THEN Range(req.include_dimensions)
    ELSE ScopeDims(req.scope)

\* C35: every composite returned by build_context, freshly built or served
\* from the cache, has populated dimensions only among the dimensions
\* selected for that request, whatever requests came before on the same
\* tenant, case and scope.
C35_PopulatedWithinSelection ==
    (pc = "DONE" /\ response # <<>>) =>
        Populated(response[1]) \subseteq SelectedDimensions


----------------------------------------------------------------------------
(* a failed dimension and completeness *)

\* the build in progress has been scored and at least one of its requested
\* dimensions failed
SomeDimensionFailed ==
    /\ pc \in {"CACHE_WRITE", "DONE"}
    /\ response # <<>>
    /\ \E d \in DOMAIN results : results[d] = NoCtx

\* C37: a composite in which at least one requested dimension failed is
\* never complete: its composite score is below 0.85 for every combination
\* of the other dimensions' scores and every number of requested
\* dimensions, and therefore it is never written to the cache.
C37_FailedDimensionNeverComplete ==
    SomeDimensionFailed =>
        /\ ~response[1].is_complete
        /\ FracLess(response[1].context_score, Frac(17, 20))
        /\ last.op # "set"
        /\ cache = <<>>

\* a cache-enabled build of five dimensions has returned: one failed, the
\* other four score their maximum (WHEN above 1.0), and the composite,
\* 0.688, was not cached
C37_Witness ==
    /\ SomeDimensionFailed
    /\ pc = "DONE"
    /\ req.use_cache
    /\ DOMAIN results = DimensionSet
    /\ Successful(results) = 4
    /\ SumScores(results) = 4 * ScoreUnit + (3 * ScoreUnit) \div 10
    /\ FracEq(response[1].context_score, Frac(688, 1000))


----------------------------------------------------------------------------
(* delete against a concurrent get that promotes: SpecPromote.  Coroutine 1 *)
(* stores a composite and then deletes the minimal-scope key; coroutine 2   *)
(* only reads, so no set is issued once the delete has begun                *)

\* the key delete(tenant, case, scope) is called for
DeletedKey == CacheKey(<<"t1">>, <<"c1">>, <<"minimal">>, NoStr)

\* coroutine 1 has not called yet: its first call is a set
PSet(scope) == coros[1].calls = 0 /\ CSet(1, scope, "active")

\* its second call is delete(tenant, case, "minimal")
PDelete == coros[1].calls = 1 /\ CDelete(1, Some(<<"minimal">>))

NextPromote ==
    \/ \E sc \in AllScopes : PSet(sc)
    \/ CSetRedis(1)
    \/ CSetDb(1)
    \/ PDelete
    \/ CDeleteRedis(1)
    \/ CDeleteDb(1)
    \/ \E sc \in AllScopes : CGet(2, sc)
    \/ CGetRedis(2)
    \/ CGetDb(2)
    \/ CGetPromote(2)

SpecPromote == InitCoop /\ [][NextPromote]_vars

\* the delete of coroutine 1 has returned
DeleteReturned == coros[1].pc = "idle" /\ coros[1].calls = 2

----------------------------------------------------------------------------
(* invalidate_case against builds in flight: SpecInflight.  Coroutines 1    *)
(* and 2 call build_context(use_cache=True) for the same case and scope,    *)
(* coroutine 3 calls invalidate_case.  With the memory tier alone the only  *)
(* suspension of a build is the await of its analyzers                      *)

Builders == {1, 2}
\* the coroutine after the builders
Invalidator == Cardinality(Builders) + 1

\* the invalidate_case calls that have returned
Invalidations == coros[Invalidator].calls

BIdle(calls) == [pc |-> "idle", calls |-> calls, started |-> 0, read |-> 0,
                 served |-> <<>>]

\* the composite built from analyzer calls that started when `read`
\* invalidations had returned
Composite(read, is_complete) ==
    [read |-> read, is_complete |-> is_complete, cached |-> FALSE]

InitInflight ==
    /\ BuilderCacheManager
    /\ pc = "IDLE"
    /\ req = <<>>
    /\ dims = <<>>
    /\ task = <<>>
    /\ results = <<>>
    /\ response = <<>>
    /\ raised = None
    /\ nreq = 0
    /\ finish_order = <<>>
    /\ completed_tasks = <<>>
    /\ coros = <<BIdle(0), BIdle(0), BIdle(0)>>

\* build_context(use_cache=True) from the call to the await of the
\* analyzers: a cached composite is returned at once, otherwise the
\* analyzer calls are started
FStart(p) ==
    LET c == coros[p]
        out == ManagerGet(BuildClient, BuildCase, <<"minimal">>, NoStr)
    IN  /\ c.pc \in {"idle", "returned"}
        /\ c.calls < MaxCalls
        /\ cache' = out.cache
        /\ stats' = out.stats
        /\ coros' = [coros EXCEPT ![p] =
                        IF out.tier # None
                        THEN [pc |-> "returned", calls |-> c.calls + 1,
                              started |-> Invalidations, read |-> 0,
                              served |-> <<MarkCached(out.value)>>]
                        ELSE [pc |-> "analyzers", calls |-> c.calls,
                              started |-> Invalidations,
                              read |-> Invalidations, served |-> <<>>]]
        /\ UNCHANGED <<redis, db, now>>
        /\ CoopFrame

\* the analyzers of build p have all finished: the composite is scored,
\* written to the cache when complete, and returned
FFinish(p, is_complete) ==
    LET c == coros[p]
        composite == Composite(c.read, is_complete)
        out == ManagerSet(BuildClient, BuildCase, <<"minimal">>, composite,
                          "active", NoStr)
    IN  /\ c.pc = "analyzers"
        /\ IF ShouldCache(is_complete, TRUE)
           THEN cache' = out.cache /\ stats' = out.stats
           ELSE UNCHANGED <<cache, stats>>
        /\ coros' = [coros EXCEPT ![p] = [c EXCEPT !.pc = "returned",
                                                   !.calls = @ + 1,
                                                   !.served = <<composite>>]]
        /\ UNCHANGED <<redis, db, now>>
        /\ CoopFrame

\* invalidate_case(tenant, case): with the memory tier alone it runs to its
\* return without suspension
FInvalidate ==
    LET out == ManagerDelete(BuildClient, BuildCase, NoStr, NoStr)
    IN  /\ Invalidations < MaxCalls
        /\ cache' = out.cache
        /\ stats' = Bump(stats, "total_deletes", out.n)
        /\ coros' = [coros EXCEPT ![Invalidator].calls = @ + 1]
        /\ UNCHANGED <<redis, db, now>>
        /\ CoopFrame

NextInflight ==
    \/ \E p \in Builders : FStart(p)
    \/ \E p \in Builders, is_complete \in BOOLEAN : FFinish(p, is_complete)
    \/ FInvalidate

SpecInflight == InitInflight /\ [][NextInflight]_vars

\* C36: once invalidate_case(tenant, case) has returned, a cache-enabled
\* build_context that starts afterwards is never served a composite computed
\* from analyzer calls that started before the invalidation, under any
\* interleaving with builds of the same case that were in flight when the
\* invalidation ran.
C36_NoStaleCompositeAfterInvalidate ==
    \A p \in Builders :
        (coros[p].pc = "returned" /\ coros[p].served # <<>>) =>
            coros[p].served[1].read >= coros[p].started

====
